---- MODULE Spec2Model ----
(***************************************************************************)
(* Model of the Keitaro campaign reconciliation service                    *)
(* (src/campaigns/services.py, keitaro_api.py, models.py).                 *)
(*                                                                         *)
(* The local store holds the three tables Campaign, Flow and CampaignOffer *)
(* as sets of rows.  Python's None and a missing JSON key are both written *)
(* Null (0): every place of the code that reads such an id tests it with   *)
(* "if not x", which treats None and 0 alike.                              *)
(*                                                                         *)
(* Timestamps: every Model.save() stamps updated_at with the current time  *)
(* (auto_now), QuerySet.update() and delete() do not.  Within an operation *)
(* the saves are stamped in the order the code performs them; between      *)
(* operations the stamps are renumbered (Normalize).                       *)
(*                                                                         *)
(* Text (names, country codes, URLs) is a sequence of characters, so that  *)
(* lower(), upper() and the substring test "a in b" are computed.          *)
(*                                                                         *)
(* The Keitaro tracker is the environment: `remote` holds the campaigns    *)
(* and streams it has stored; each request is answered by one of the       *)
(* responses the client code distinguishes.                                *)
(***************************************************************************)
EXTENDS Integers, Sequences, FiniteSets, TLC

VARIABLES
    campaigns,    \* Campaign rows
    flows,        \* Flow rows
    offers,       \* CampaignOffer rows
    nextFlowPk,   \* next auto-increment primary key of Flow
    nextOfferPk,  \* next auto-increment primary key of CampaignOffer
    last,         \* the operation that ran last, its arguments and outcome
    remote,       \* what the Keitaro tracker has stored
    call          \* the locals of the creation call that is running

vars == <<campaigns, flows, offers, nextFlowPk, nextOfferPk, last, remote, call>>

Null == 0
Absent == -1

\* ------------------------------------------------------------- bounds
MaxFlowPk == 2
MaxOfferPk == 2

\* The remote identifiers and the weights the environment uses.
OfferIds == {1, 2}
Weights == {1, 2}
StreamIds == {1}

\* ------------------------------------------------------------- rows
OfferNameOf(oid) == <<"o", ToString(oid)>>
NoName == <<>>
NoText == <<>>

Campaign(pk, kid, name, geo, oid) ==
    [pk |-> pk, keitaro_id |-> kid, name |-> name, geo |-> geo, offer_id |-> oid]

Flow(pk, c, kid, name, ftype, country, url, t) ==
    [pk |-> pk, campaign |-> c, keitaro_id |-> kid, name |-> name,
     flow_type |-> ftype, country |-> country, redirect_url |-> url,
     is_published |-> TRUE, has_changes |-> FALSE, updated_at |-> t]

CampaignOffer(pk, c, f, oid, name, w, t) ==
    [pk |-> pk, campaign |-> c, flow |-> f, offer_id |-> oid, offer_name |-> name,
     weight |-> w, weight_pinned |-> FALSE, status |-> "active", updated_at |-> t]

\* ------------------------------------------------------------- the store
\* A database value threaded through one operation: the rows, the clock of
\* the next save, the key counters, whether the operation raised, and whether
\* it needed a primary key beyond the model's bound.
MaxOf(S) == IF S = {} THEN 0 ELSE CHOOSE x \in S : \A y \in S : y <= x

Stamps(fl, of) == {r.updated_at : r \in fl} \cup {r.updated_at : r \in of}

Db(fl, of, nf, no) ==
    [flows |-> fl, offers |-> of, clock |-> MaxOf(Stamps(fl, of)) + 1,
     nextFlowPk |-> nf, nextOfferPk |-> no, raised |-> FALSE, overflow |-> FALSE,
     seen |-> {}]

Raise(db) == [db EXCEPT !.raised = TRUE]

SaveOffer(db, row) ==
    [db EXCEPT !.offers = {r \in @ : r.pk # row.pk}
                            \cup {[row EXCEPT !.updated_at = db.clock]},
               !.clock = @ + 1]

SaveFlow(db, row) ==
    [db EXCEPT !.flows = {r \in @ : r.pk # row.pk}
                            \cup {[row EXCEPT !.updated_at = db.clock]},
               !.clock = @ + 1]

\* An insert into a table without the unique_together constraint.
CreateOffer_unconstrained(db, c, f, oid, name, w) ==
    IF db.nextOfferPk > MaxOfferPk THEN [db EXCEPT !.overflow = TRUE]
    ELSE [db EXCEPT !.offers = @ \cup {CampaignOffer(db.nextOfferPk, c, f, oid, name, w, db.clock)},
                    !.clock = @ + 1,
                    !.nextOfferPk = @ + 1]

\* CampaignOffer.objects.create: unique_together (campaign, offer_id) makes
\* the insert raise IntegrityError when the pair already has a row.
CreateOffer(db, c, f, oid, name, w) ==
    IF \E r \in db.offers : r.campaign = c /\ r.offer_id = oid THEN Raise(db)
    ELSE IF db.nextOfferPk > MaxOfferPk THEN [db EXCEPT !.overflow = TRUE]
    ELSE [db EXCEPT !.offers = @ \cup {CampaignOffer(db.nextOfferPk, c, f, oid, name, w, db.clock)},
                    !.clock = @ + 1,
                    !.nextOfferPk = @ + 1]

\* Flow.objects.create: keitaro_id is unique when it is not null.
CreateFlow(db, c, kid, name, ftype, country, url) ==
    IF kid # Null /\ \E r \in db.flows : r.keitaro_id = kid THEN Raise(db)
    ELSE IF db.nextFlowPk > MaxFlowPk THEN [db EXCEPT !.overflow = TRUE]
    ELSE [db EXCEPT !.flows = @ \cup {Flow(db.nextFlowPk, c, kid, name, ftype, country, url, db.clock)},
                    !.clock = @ + 1,
                    !.nextFlowPk = @ + 1]

\* Meta.ordering of CampaignOffer is ['-weight', 'id']: the row .first() and
\* an iteration return first.
FirstOffer(S) ==
    CHOOSE r \in S : \A q \in S :
        r.weight > q.weight \/ (r.weight = q.weight /\ r.pk <= q.pk)

\* Meta.ordering of Flow is ['id'].
FirstFlow(S) == CHOOSE r \in S : \A q \in S : r.pk <= q.pk

FlowByPk(db, pk) == CHOOSE r \in db.flows : r.pk = pk

\* The timestamps of the store, reduced to what the code can observe of them.
\* The only reads of updated_at are the two filters of cancel_flow_changes,
\* which compare an offer's stamp with the stamp of the flow it is bound to;
\* an offer is bound to a flow only by a save of the offer, and every save
\* stamps a time later than all stamps in the store.  So flows are renumbered
\* to FlowStamp and an offer to Newer when it was saved after its flow, to
\* Older otherwise: every later comparison has the same outcome.
Older == 0
FlowStamp == 1
Newer == 2

Normalize(db) ==
    [db EXCEPT !.flows = {[r EXCEPT !.updated_at = FlowStamp] : r \in db.flows},
               !.offers = {[r EXCEPT !.updated_at =
                               IF r.flow # Null
                                  /\ r.updated_at > FlowByPk(db, r.flow).updated_at
                               THEN Newer ELSE Older] : r \in db.offers}]

\* ------------------------------------------------------------- offer lifecycle
Offer(db, c, oid) == {r \in db.offers : r.campaign = c /\ r.offer_id = oid}

\* A recalculation that leaves every weight as it is.
recalculate_weights_none(db, f) == db

\* recalculate_weights: every active unpinned offer of the flow is saved with
\* weight 1, in the order of the queryset; pinned offers are only summed.
RECURSIVE SaveEachBaseWeight(_, _)
SaveEachBaseWeight(db, S) ==
    IF S = {} THEN db
    ELSE LET r == FirstOffer(S) IN
         SaveEachBaseWeight(SaveOffer(db, [r EXCEPT !.weight = 1]), S \ {r})

\* A recalculation that resets pinned offers as well.
recalculate_weights_pinned_too(db, f) ==
    LET active_offers == {r \in db.offers : r.flow = f /\ r.status = "active"}
    IN  IF active_offers = {} THEN db
        ELSE SaveEachBaseWeight(db, active_offers)

recalculate_weights(db, f) ==
    LET active_offers == {r \in db.offers : r.flow = f /\ r.status = "active"}
        unpinned_offers == {r \in active_offers : ~r.weight_pinned}
    IN  IF unpinned_offers = {} THEN db
        ELSE SaveEachBaseWeight(db, unpinned_offers)

\* An add that keeps the flow binding of a row it finds.
add_offer_keeps_flow(db, c, oid, w, name) ==
    LET existing == {r \in db.offers : r.campaign = c /\ r.offer_id = oid} IN
    IF existing # {}
    THEN SaveOffer(db, [FirstOffer(existing) EXCEPT
                            !.offer_name = name, !.weight = w, !.status = "active"])
    ELSE CreateOffer(db, c, Null, oid, name, w)

\* add_offer_to_campaign(campaign, offer_id, weight); name is what the
\* best-effort get_offer lookup produced ('' when it failed).
add_offer_to_campaign(db, c, oid, w, name) ==
    LET existing == Offer(db, c, oid) IN
    IF existing # {}
    THEN SaveOffer(db, [FirstOffer(existing) EXCEPT
                            !.flow = Null, !.offer_name = name,
                            !.weight = w, !.status = "active"])
    ELSE CreateOffer(db, c, Null, oid, name, w)

MarkFlowAndRecalculate(db, f) ==
    IF f = Null THEN db
    ELSE recalculate_weights(
             SaveFlow(db, [FlowByPk(db, f) EXCEPT !.has_changes = TRUE]), f)

remove_offer_from_campaign(db, c, oid) ==
    LET found == Offer(db, c, oid) IN
    IF found = {} THEN Raise(db)
    ELSE LET offer == FirstOffer(found) IN
         MarkFlowAndRecalculate(
             SaveOffer(db, [offer EXCEPT !.status = "removed"]), offer.flow)

\* A restore that saves the offer and leaves its flow alone.
bring_back_unmarked(db, c, oid) ==
    LET found == Offer(db, c, oid) IN
    IF found = {} THEN Raise(db)
    ELSE SaveOffer(db, [FirstOffer(found) EXCEPT !.status = "active"])

\* A restore that returns the offer to the campaign without its flow.
bring_back_unbound(db, c, oid) ==
    LET found == Offer(db, c, oid) IN
    IF found = {} THEN Raise(db)
    ELSE SaveOffer(db, [FirstOffer(found) EXCEPT !.status = "active", !.flow = Null])

bring_back_offer(db, c, oid) ==
    LET found == Offer(db, c, oid) IN
    IF found = {} THEN Raise(db)
    ELSE LET offer == FirstOffer(found) IN
         MarkFlowAndRecalculate(
             SaveOffer(db, [offer EXCEPT !.status = "active"]), offer.flow)

pin_offer_weight(db, offer) ==
    SaveOffer(db, [offer EXCEPT !.weight_pinned = TRUE])

unpin_offer_weight(db, offer) ==
    LET db1 == SaveOffer(db, [offer EXCEPT !.weight_pinned = FALSE]) IN
    IF offer.flow # Null THEN recalculate_weights(db1, offer.flow) ELSE db1

\* A cancel that reverts the removed offers before it deletes the added ones.
cancel_reverts_first(db, flow) ==
    LET reverted == {IF r.flow = flow.pk /\ r.status = "removed"
                        /\ r.updated_at > flow.updated_at
                     THEN [r EXCEPT !.status = "active"] ELSE r : r \in db.offers}
        kept == {r \in reverted :
                    ~(r.flow = flow.pk /\ r.status = "active"
                      /\ r.updated_at > flow.updated_at)}
        db1 == [db EXCEPT !.offers = kept]
    IN  recalculate_weights(SaveFlow(db1, [flow EXCEPT !.has_changes = FALSE]), flow.pk)

\* cancel_flow_changes(flow): flow is the row as the caller read it.
cancel_flow_changes(db, flow) ==
    LET kept == {r \in db.offers :
                    ~(r.flow = flow.pk /\ r.status = "active"
                      /\ r.updated_at > flow.updated_at)}
        reverted == {IF r.flow = flow.pk /\ r.status = "removed"
                        /\ r.updated_at > flow.updated_at
                     THEN [r EXCEPT !.status = "active"] ELSE r : r \in kept}
        db1 == [db EXCEPT !.offers = reverted]
    IN  recalculate_weights(SaveFlow(db1, [flow EXCEPT !.has_changes = FALSE]), flow.pk)

CampaignByPk(c) == CHOOSE r \in campaigns : r.pk = c

\* A payload that lists every offer of the flow, whatever its status.
RECURSIVE PayloadOf(_)
PayloadOf(S) ==
    IF S = {} THEN <<>>
    ELSE LET r == FirstOffer(S) IN
         <<[id |-> r.offer_id, weight |-> r.weight]>> \o PayloadOf(S \ {r})

offers_payload_all(db, flow) == PayloadOf({r \in db.offers : r.flow = flow.pk})

\* offers_payload of push_flow_to_keitaro (services.py 723-733): one
\* {'id', 'weight'} per active offer of the flow, in the queryset's order.
offers_payload(db, flow) ==
    PayloadOf({r \in db.offers : r.flow = flow.pk /\ r.status = "active"})

\* The PUT /streams/<id> a push sends: none when the ids are missing.
Put(sent, flow_id, offer_list) == [sent |-> sent, flow_id |-> flow_id, offers |-> offer_list]

NoPut == Put(FALSE, Null, <<>>)

update_flow_request(db, flow) ==
    IF CampaignByPk(flow.campaign).keitaro_id = Null \/ flow.keitaro_id = Null
    THEN NoPut
    ELSE Put(TRUE, flow.keitaro_id, offers_payload(db, flow))

\* A push that saves the flow as published before the remote answers.
push_flow_saves_first(db, flow, updated) ==
    IF CampaignByPk(flow.campaign).keitaro_id = Null \/ flow.keitaro_id = Null
    THEN Raise(db)
    ELSE LET saved == SaveFlow(db, [flow EXCEPT !.is_published = TRUE,
                                                !.has_changes = FALSE])
         IN  IF ~updated THEN Raise(saved) ELSE saved

\* push_flow_to_keitaro(flow); updated is whether the remote PUT succeeded.
push_flow_to_keitaro(db, flow, updated) ==
    IF CampaignByPk(flow.campaign).keitaro_id = Null \/ flow.keitaro_id = Null
    THEN Raise(db)
    ELSE IF ~updated THEN Raise(db)
    ELSE SaveFlow(db, [flow EXCEPT !.is_published = TRUE, !.has_changes = FALSE])

\* ------------------------------------------------------------- drift sync
\* A remote stream of a listing is [id, name, root, payload, nested]:
\*   root    the 'offers' list in the root of the stream,
\*   payload the shape of 'action_payload': "dict", "json" (a string holding a
\*           JSON object), "text" (a string that is no JSON) or "none",
\*   nested  the 'offers' list inside a "dict" or "json" payload.
\* An offer entry is [isdict, offer_id, id, weight, share]; Null is a missing
\* id and Absent a missing 'weight' or 'share' key.
Stream(id, name, root, payload, nested) ==
    [id |-> id, name |-> name, root |-> root, payload |-> payload, nested |-> nested]

Entry(offer_id, id, weight, share) ==
    [isdict |-> TRUE, offer_id |-> offer_id, id |-> id, weight |-> weight, share |-> share]

NotADict == [isdict |-> FALSE, offer_id |-> Null, id |-> Null, weight |-> Absent, share |-> Absent]

\* json.loads of a string payload; anything unparsable becomes {}.
OffersInPayload(stream) ==
    IF stream.payload \in {"dict", "json"} THEN stream.nested ELSE <<>>

\* offers = offers_in_stream or offers_in_payload
OffersOf(stream) ==
    IF stream.root # <<>> THEN stream.root ELSE OffersInPayload(stream)

\* offer_data.get('offer_id') or offer_data.get('id')
EntryOfferId(e) == IF e.offer_id # Null THEN e.offer_id ELSE e.id

\* A weight read from 'weight' alone.
EntryWeight_plain(e) == IF e.weight # Absent THEN e.weight ELSE 1

\* offer_data.get('weight', 1), replaced by max(1, int(share)) when 'share' is there
EntryWeight(e) ==
    IF e.share # Absent THEN (IF e.share > 1 THEN e.share ELSE 1)
    ELSE IF e.weight # Absent THEN e.weight ELSE 1

LookupName(named, oid) == IF oid \in named THEN OfferNameOf(oid) ELSE NoName

\* A sync of one entry that does not look for a removed row first.
SyncEntry_resurrects(db, c, f, e, named) ==
    IF ~e.isdict THEN db
    ELSE LET offer_id == EntryOfferId(e) IN
    IF offer_id = Null THEN db
    ELSE LET db1 == [db EXCEPT !.seen = @ \cup {offer_id}]
             existing == {r \in db1.offers : r.campaign = c /\ r.offer_id = offer_id}
         IN  IF existing = {}
             THEN CreateOffer(db1, c, f, offer_id, LookupName(named, offer_id), EntryWeight(e))
             ELSE SaveOffer(db1, [FirstOffer(existing) EXCEPT
                                     !.flow = f, !.weight = EntryWeight(e),
                                     !.status = "active"])

\* A sync of one entry that adds the listed weight to the weight of the row.
SyncEntry_accumulates(db, c, f, e, named) ==
    IF ~e.isdict THEN db
    ELSE LET offer_id == EntryOfferId(e) IN
    IF offer_id = Null THEN db
    ELSE LET db1 == [db EXCEPT !.seen = @ \cup {offer_id}]
             existing == Offer(db1, c, offer_id)
             existing_removed_offer == {r \in existing : r.status = "removed"}
         IN  IF existing_removed_offer # {} THEN db1
             ELSE IF existing = {}
             THEN CreateOffer(db1, c, f, offer_id, LookupName(named, offer_id), EntryWeight(e))
             ELSE SaveOffer(db1, [FirstOffer(existing) EXCEPT
                                     !.flow = f, !.weight = @ + EntryWeight(e),
                                     !.status = "active"])

\* One entry of a stream's offer list (services.py 642-697).
SyncEntry(db, c, f, e, named) ==
    IF ~e.isdict THEN db
    ELSE LET offer_id == EntryOfferId(e) IN
    IF offer_id = Null THEN db
    ELSE LET db1 == [db EXCEPT !.seen = @ \cup {offer_id}]
             existing == Offer(db1, c, offer_id)
             existing_removed_offer == {r \in existing : r.status = "removed"}
         IN  IF existing_removed_offer # {} THEN db1
             ELSE IF existing = {}
             THEN CreateOffer(db1, c, f, offer_id, LookupName(named, offer_id), EntryWeight(e))
             ELSE SaveOffer(db1, [FirstOffer(existing) EXCEPT
                                     !.flow = f, !.weight = EntryWeight(e),
                                     !.status = "active"])

RECURSIVE SyncEntries(_, _, _, _, _, _)
SyncEntries(db, c, f, entries, i, named) ==
    IF i > Len(entries) \/ db.raised \/ db.overflow THEN db
    ELSE SyncEntries(SyncEntry(db, c, f, entries[i], named), c, f, entries, i + 1, named)

\* Flow.objects.get_or_create(campaign=, keitaro_id=, defaults=...) and the
\* refresh of an existing row (services.py 620-637).
SyncFlow(db, c, stream) ==
    LET flow_type == IF OffersOf(stream) # <<>> THEN "offer_redirect" ELSE "country_filter"
        found == {r \in db.flows : r.campaign = c /\ r.keitaro_id = stream.id}
    IN  IF found = {}
        THEN CreateFlow(db, c, stream.id, stream.name, flow_type, NoText, NoText)
        ELSE SaveFlow(db, [FirstFlow(found) EXCEPT !.name = stream.name,
                                                   !.flow_type = flow_type])

SyncStream(db, c, stream, named) ==
    IF stream.id = Null THEN db
    ELSE LET db1 == SyncFlow(db, c, stream) IN
         IF db1.raised \/ db1.overflow THEN db1
         ELSE LET flow == FirstFlow({r \in db1.flows :
                                        r.campaign = c /\ r.keitaro_id = stream.id})
              IN  SyncEntries(db1, c, flow.pk, OffersOf(stream), 1, named)

RECURSIVE SyncStreams(_, _, _, _, _)
SyncStreams(db, c, streams_data, i, named) ==
    IF i > Len(streams_data) \/ db.raised \/ db.overflow THEN db
    ELSE SyncStreams(SyncStream(db, c, streams_data[i], named), c, streams_data, i + 1, named)

\* A sweep that marks nothing.
SweepAbsent_none(db, c) == db

\* The closing sweep (services.py 699-712).
RECURSIVE MarkRemoved(_, _)
MarkRemoved(db, S) ==
    IF S = {} THEN db
    ELSE LET r == FirstOffer(S) IN
         MarkRemoved(SaveOffer(db, [r EXCEPT !.status = "removed"]), S \ {r})

\* A sweep that also marks the offers bound to no flow.
SweepAbsent_unbound(db, c) ==
    MarkRemoved(db, {r \in db.offers : r.campaign = c /\ r.status = "active"
                                        /\ r.offer_id \notin db.seen})

SweepAbsent(db, c) ==
    MarkRemoved(db, {r \in db.offers : r.campaign = c /\ r.status = "active"
                                        /\ r.flow # Null /\ r.offer_id \notin db.seen})

\* Whether fetch_streams_from_keitaro gets as far as its listing request
\* (services.py 575-579).
streams_requested(c) == CampaignByPk(c).keitaro_id # Null

\* fetch_streams_from_keitaro(campaign); streams_data is what
\* get_campaign_streams returned.
fetch_streams_from_keitaro(db, c, streams_data, named) ==
    IF CampaignByPk(c).keitaro_id = Null THEN Raise(db)
    ELSE IF streams_data = <<>> THEN db
    ELSE LET db1 == SyncStreams(db, c, streams_data, 1, named) IN
         IF db1.raised \/ db1.overflow THEN db1 ELSE SweepAbsent(db1, c)

\* flow.delete(): the Flow row and, by on_delete=CASCADE (models.py 61), the
\* offers bound to it.
DeleteRows(db, flow) ==
    [db EXCEPT !.flows = {f \in @ : f.pk # flow.pk},
               !.offers = {r \in @ : r.flow # flow.pk}]

\* delete_flow(flow); deleted is what KeitaroAPI.delete_flow returns, which
\* catches every error of the request itself (keitaro_api.py 314-321).
delete_flow(db, flow, deleted) ==
    IF flow.keitaro_id = Null THEN DeleteRows(db, flow)
    ELSE IF deleted THEN DeleteRows(db, flow)
    ELSE db

\* The tracker's side of DELETE /streams/{id}.
DeleteStream(rem, flow, deleted) ==
    IF flow.keitaro_id = Null \/ ~deleted THEN rem
    ELSE [rem EXCEPT !.streams = {st \in @ : st.id # flow.keitaro_id}]

\* ------------------------------------------------------------- remote listings
StreamName(id) == <<"s", ToString(id)>>

RECURSIVE SeqOfSet(_)
SeqOfSet(S) ==
    IF S = {} THEN <<>>
    ELSE LET x == CHOOSE y \in S : \A z \in S : y <= z IN <<x>> \o SeqOfSet(S \ {x})

RECURSIVE MapEntries(_, _)
MapEntries(ids, w) ==
    IF ids = <<>> THEN <<>>
    ELSE <<Entry(Null, Head(ids), w, Absent)>> \o MapEntries(Tail(ids), w)

\* Streams listing their offers in the root as {'id', 'weight'}.
PlainStream(id, S, w) == Stream(id, StreamName(id), MapEntries(SeqOfSet(S), w), "text", <<>>)

\* The other shapes the code accepts or skips: offers nested in the payload
\* (a dict, a JSON string, a plain string), root and payload both given,
\* 'share' instead of or beside 'weight', a 'weight' of 0, 'offer_id' instead
\* of 'id', entries
\* without id or that are no dict, and a stream without id.
ShapedStreams(id) ==
    {Stream(id, StreamName(id), <<>>, p, <<Entry(1, Null, Absent, Absent)>>) :
        p \in {"dict", "json", "text"}}
    \cup {Stream(id, StreamName(id), <<Entry(2, 1, 2, Absent)>>, "dict",
                 <<Entry(Null, 1, 1, Absent)>>),
          Stream(id, StreamName(id), <<Entry(Null, 1, Absent, 0)>>, "none", <<>>),
          Stream(id, StreamName(id), <<Entry(Null, 2, 1, 2)>>, "none", <<>>),
          Stream(id, StreamName(id), <<Entry(Null, 1, 0, Absent)>>, "none", <<>>),
          Stream(id, StreamName(id), <<NotADict, Entry(Null, Null, 1, Absent)>>, "none", <<>>),
          Stream(Null, StreamName(id), <<Entry(Null, 1, 1, Absent)>>, "none", <<>>)}

\* The listings get_campaign_streams may return for streams `ids`.
Listings(ids) ==
    {<<>>}
    \cup {<<PlainStream(id, S, w)>> : id \in ids, S \in SUBSET OfferIds, w \in Weights}
    \cup {<<s>> : s \in UNION {ShapedStreams(id) : id \in ids}}
    \cup {<<PlainStream(id, {1}, 1), PlainStream(id2, {2}, 2)>> : id \in ids, id2 \in ids}

\* The offer ids that appear in some stream's offer list of a listing.
EntryIds(entries) ==
    {x \in OfferIds : \E i \in 1..Len(entries) :
        entries[i].isdict /\ (entries[i].offer_id = x \/ entries[i].id = x)}

ListedIds(listing) ==
    UNION {EntryIds(listing[i].root) \cup EntryIds(OffersInPayload(listing[i])) :
              i \in 1..Len(listing)}

\* ------------------------------------------------------------- text
\* str.lower() and str.upper() on the characters the model uses.
Lower(ch) == CASE ch = "A" -> "a" [] ch = "U" -> "u" [] ch = "F" -> "f" [] OTHER -> ch

Upper(ch) == CASE ch = "a" -> "A" [] ch = "u" -> "U" [] ch = "f" -> "F" [] OTHER -> ch

LowerOf(s) == [i \in 1..Len(s) |-> Lower(s[i])]

UpperOf(s) == [i \in 1..Len(s) |-> Upper(s[i])]

\* Python's `sub in s` on strings.
Contains(sub, s) ==
    \E i \in 0..(Len(s) - Len(sub)) : \A j \in 1..Len(sub) : s[i + j] = sub[j]

\* name.lower() in stream_name.lower()
NameIn(name, stream_name) == Contains(LowerOf(name), LowerOf(stream_name))

\* ------------------------------------------------------------- the tracker
MaxRemoteStreams == 2
MaxRemoteCampaigns == 2

\* A filter of a stream: the form it was posted in and the country it names.
Filter(form, country) == [form |-> form, country |-> country]

NoFilter == Filter("none", NoText)

\* The action_payload argument of KeitaroAPI.create_flow: a URL string, or
\* a dict that may hold 'url' and may hold 'offers'.
Payload(kind, url, has_offers, offer_list) ==
    [kind |-> kind, url |-> url, has_offers |-> has_offers, offers |-> offer_list]

\* The body KeitaroAPI.create_flow posts (keitaro_api.py 252-279): for schema
\* 'landings' with a dict payload holding 'offers' the list goes to the root
\* and no action_payload is sent; otherwise the payload is sent as it is.
\* The stream has the fields of a listed stream (see Stream) and campaign_id,
\* url (the 'url' of a dict payload) and filters.
StreamData(campaign_id, name, schema, action_payload, filters) ==
    IF schema = "landings" /\ action_payload.kind = "dict" /\ action_payload.has_offers
    THEN [id |-> Null, campaign_id |-> campaign_id, name |-> name,
          root |-> action_payload.offers, payload |-> "none", nested |-> <<>>,
          url |-> NoText, filters |-> filters]
    ELSE [id |-> Null, campaign_id |-> campaign_id, name |-> name,
          root |-> <<>>,
          payload |-> IF action_payload.kind = "str" THEN "text" ELSE "dict",
          nested |-> action_payload.offers,
          url |-> action_payload.url, filters |-> filters]

\* How the tracker answers POST /streams: "ok" (2xx with the created stream),
\* "empty" (2xx without a body), "e500c" and "e500n" (HTTP 500 after and
\* without storing the stream), "err" (any other failure; nothing stored).
CreateResponses == {"ok", "empty", "e500c", "e500n", "err"}

Stored(resp) == resp \in {"ok", "empty", "e500c"}

Is500(resp) == resp \in {"e500c", "e500n"}

\* The tracker's side of POST /streams; it stores what was posted.
PostStream(rem, data, resp) ==
    IF ~Stored(resp) THEN rem
    ELSE IF rem.nextStreamId > MaxRemoteStreams THEN [rem EXCEPT !.overflow = TRUE]
    ELSE [rem EXCEPT !.streams = @ \cup {[data EXCEPT !.id = rem.nextStreamId]},
                     !.nextStreamId = @ + 1]

\* What a gateway call hands back: the tracker afterwards, the kind of
\* outcome ("dict", "none", "raise500": an exception whose text holds '500',
\* "raise": any other exception), the created stream's id and name, the
\* number of POSTs sent after one that was answered 500, the number of
\* streams the tracker stored, and whether the outcome is that of a 500 answer.
Outcome(rem, kind, id, name, resent, stored, last500) ==
    [remote |-> rem, kind |-> kind, id |-> id, name |-> name,
     resent |-> resent, stored |-> stored, last500 |-> last500]

\* _make_request('POST', '/streams', data, allow_500)
make_request(rem, data, resp, allow_500) ==
    LET rem1 == PostStream(rem, data, resp)
        n == IF Stored(resp) THEN 1 ELSE 0
    IN  CASE resp = "ok"    -> Outcome(rem1, "dict", rem.nextStreamId, data.name, 0, n, FALSE)
          [] resp = "empty" -> Outcome(rem1, "none", Null, NoText, 0, n, FALSE)
          [] Is500(resp)    -> Outcome(rem1, IF allow_500 THEN "none" ELSE "raise500",
                                       Null, NoText, 0, n, TRUE)
          [] OTHER          -> Outcome(rem1, "raise", Null, NoText, 0, n, FALSE)

\* KeitaroAPI.create_flow: r1 answers the POST, r2 the POST it sends again
\* when the first raised with a 500.
create_flow(rem, data, r1, r2) ==
    LET first == make_request(rem, data, r1, FALSE) IN
    IF first.kind # "raise500" THEN first
    ELSE LET again == make_request(first.remote, data, r2, TRUE)
             both == [again EXCEPT !.resent = 1, !.stored = @ + first.stored]
         IN  IF again.kind = "raise"
             THEN [both EXCEPT !.kind = "raise500", !.last500 = TRUE]
             ELSE both

\* get_campaign_streams: the campaign's streams in the tracker's order (by id).
RECURSIVE StreamsById(_)
StreamsById(S) ==
    IF S = {} THEN <<>>
    ELSE LET s == CHOOSE x \in S : \A y \in S : x.id <= y.id
         IN  <<s>> \o StreamsById(S \ {s})

get_campaign_streams(rem, campaign_id) ==
    StreamsById({s \in rem.streams : s.campaign_id = campaign_id})

\* ------------------------------------------------------------- flow creation
FilterVariants == 3
PayloadVariants == 2
OfferFormats == 4
Attempts == 5

\* flow_data: the dict a create call or a listing check left, NoData for None.
FlowData(id, name) == [id |-> id, name |-> name]

NoData == FlowData(Null, NoText)

HasId(flow_data) == flow_data.id # Null

\* The locals of a running create_flow_for_campaign or
\* create_campaign_with_flows: pc is the step that runs next ("idle": no call,
\* "done": the call ended), i the index of the loop iteration, result how the
\* call ended ("flow": it returned the Flow whose keitaro_id is `flow`,
\* "campaign": it returned the Campaign, "error": it raised), and for the
\* whole call offer_ids (the pieces of the offer_ids argument as given),
\* resent (POST /streams sent after a POST that was answered 500),
\* stored (streams the tracker stored) and last500 (the last create call
\* reported a 500).
Frame(pc, op, c, name, flow_type, country, url, ids) ==
    [pc |-> pc, op |-> op, campaign |-> c, name |-> name, flow_type |-> flow_type,
     country |-> country, redirect_url |-> url, offer_id_list |-> ids,
     i |-> 0, flow_data |-> NoData, last_error |-> FALSE,
     resent |-> 0, stored |-> 0, last500 |-> FALSE,
     result |-> "none", flow |-> Null, offer_ids |-> <<>>]

Idle == Frame("idle", "none", Null, NoText, "none", NoText, NoText, <<>>)

\* What one step of a call leaves: its locals, the store and the tracker.
Step(fr, db, rem) == [frame |-> fr, db |-> db, remote |-> rem]

Tally(fr, g) ==
    [fr EXCEPT !.resent = IF @ + g.resent > 0 THEN 1 ELSE 0,
               !.stored = @ + g.stored,
               !.last500 = g.last500]

Return(fr, kid) == [fr EXCEPT !.pc = "done", !.result = "flow", !.flow = kid]

Fail(fr) == [fr EXCEPT !.pc = "done", !.result = "error"]

\* offer_ids as typed in the form: the pieces between the commas.  A piece is
\* a number, blank, or no number (services.py 1118-1123).
ParseInt(piece) == CASE piece = "1" -> 1 [] piece = "2" -> 2 [] OTHER -> Null

Blank(piece) == piece = " "

RECURSIVE ParseOfferIds(_)
ParseOfferIds(pieces) ==
    IF pieces = <<>> THEN <<>>
    ELSE IF Blank(Head(pieces)) THEN ParseOfferIds(Tail(pieces))
    ELSE <<ParseInt(Head(pieces))>> \o ParseOfferIds(Tail(pieces))

BadOfferIds(pieces) ==
    \E k \in 1..Len(pieces) : ~Blank(pieces[k]) /\ ParseInt(pieces[k]) = Null

\* Checks that do not look at the campaign's remote id.
Validate_skips_id(c, name, flow_type, url, country, pieces) ==
    LET fr == [Frame("loop", "create_flow", c.pk, name, flow_type, country, url, <<>>)
                  EXCEPT !.offer_ids = pieces] IN
    IF flow_type = "country_filter"
    THEN IF url = NoText \/ country = NoText THEN Fail(fr) ELSE fr
    ELSE IF flow_type = "offer_redirect"
    THEN IF pieces = <<>> \/ BadOfferIds(pieces) \/ ParseOfferIds(pieces) = <<>>
         THEN Fail(fr)
         ELSE [fr EXCEPT !.offer_id_list = ParseOfferIds(pieces)]
    ELSE Fail(fr)

\* The checks before the first remote call (services.py 936-944, 1112-1123,
\* 1257-1258).
Validate(c, name, flow_type, url, country, pieces) ==
    LET fr == [Frame("loop", "create_flow", c.pk, name, flow_type, country, url, <<>>)
                  EXCEPT !.offer_ids = pieces] IN
    IF c.keitaro_id = Null THEN Fail(fr)
    ELSE IF flow_type = "country_filter"
    THEN IF url = NoText \/ country = NoText THEN Fail(fr) ELSE fr
    ELSE IF flow_type = "offer_redirect"
    THEN IF pieces = <<>> \/ BadOfferIds(pieces) \/ ParseOfferIds(pieces) = <<>>
         THEN Fail(fr)
         ELSE [fr EXCEPT !.offer_id_list = ParseOfferIds(pieces)]
    ELSE Fail(fr)

\* A _save_offers_to_db that skips an offer whose name it cannot look up.
RECURSIVE save_offers_named_only(_, _, _, _, _)
save_offers_named_only(db, c, f, ids, named) ==
    IF ids = <<>> \/ db.overflow THEN db
    ELSE LET oid == Head(ids)
             db1 == IF Offer(db, c, oid) # {} \/ oid \notin named THEN db
                    ELSE CreateOffer(db, c, f, oid, LookupName(named, oid), 1)
         IN  save_offers_named_only(db1, c, f, Tail(ids), named)

\* _save_offers_to_db: get_or_create per offer id; an existing row stays as
\* it is.
RECURSIVE save_offers_to_db(_, _, _, _, _)
save_offers_to_db(db, c, f, ids, named) ==
    IF ids = <<>> \/ db.overflow THEN db
    ELSE LET oid == Head(ids)
             db1 == IF Offer(db, c, oid) # {} THEN db
                    ELSE CreateOffer(db, c, f, oid, LookupName(named, oid), 1)
         IN  save_offers_to_db(db1, c, f, Tail(ids), named)

SeqToSet(q) == {q[k] : k \in 1..Len(q)}

\* [o.get('id') for o in stream_offers if o.get('id')]
IdsOf(entries) == {entries[k].id : k \in {j \in 1..Len(entries) : entries[j].id # Null}}

\* [o.get('offer_id') or o.get('id') for o in stream_offers if isinstance(o, dict)]
OfferIdsOf(entries) ==
    {EntryOfferId(entries[k]) : k \in {j \in 1..Len(entries) : entries[j].isdict}}

\* What _find_existing_flow hands back: the store and the Flow it found
\* (its keitaro_id; Null for None).
Found(db, kid) == [db |-> db, flow |-> kid]

\* The loop of _find_existing_flow over the listing (services.py 135-173).
\* action_payload.get raises on a payload that is a string and o.get on an
\* entry that is no dict; the function catches that and returns None.
RECURSIVE FindInStreams(_, _, _, _, _, _, _, _, _, _)
FindInStreams(db, streams, k, c, name, flow_type, ids, country, url, named) ==
    IF k > Len(streams) THEN Found(db, Null)
    ELSE LET s == streams[k]
             stream_offers == IF s.payload = "dict" THEN s.nested ELSE <<>>
             broken ==
                 \/ s.payload \in {"text", "json"}
                 \/ /\ flow_type = "offer_redirect" /\ ids # <<>>
                    /\ \E j \in 1..Len(stream_offers) : ~stream_offers[j].isdict
             matches ==
                 IF flow_type = "offer_redirect" /\ ids # <<>>
                 THEN NameIn(name, s.name) \/ SeqToSet(ids) \subseteq IdsOf(stream_offers)
                 ELSE IF flow_type = "country_filter"
                 THEN \/ NameIn(name, s.name)
                      \/ country # NoText /\ Contains(UpperOf(country), UpperOf(s.name))
                      \/ url # NoText /\ Contains(url, s.url)
                 ELSE NameIn(name, s.name)
             existing == {r \in db.flows : r.keitaro_id = s.id}
         IN  IF broken THEN Found(db, Null)
             ELSE IF ~matches
             THEN FindInStreams(db, streams, k + 1, c, name, flow_type, ids, country, url, named)
             ELSE IF existing # {} THEN Found(db, FirstFlow(existing).keitaro_id)
             ELSE LET db1 == CreateFlow(db, c, s.id, s.name, flow_type, country, url)
                      f == db.nextFlowPk
                      db2 == IF flow_type = "offer_redirect" /\ ids # <<>> /\ ~db1.overflow
                             THEN save_offers_to_db(db1, c, f, ids, named)
                             ELSE db1
                  IN  Found(db2, s.id)

\* _find_existing_flow; up is whether the listing request succeeds.
find_existing_flow(db, rem, c, name, flow_type, ids, country, url, up, named) ==
    IF ~up THEN Found(db, Null)
    ELSE FindInStreams(db, get_campaign_streams(rem, CampaignByPk(c).keitaro_id), 1,
                       c, name, flow_type, ids, country, url, named)

\* filter_variants and action_payload_variants (services.py 970-993).
FilterVariant(fv, country) ==
    Filter(CASE fv = 0 -> "mode_payload" [] fv = 1 -> "operator_value" [] OTHER -> "payload",
           UpperOf(country))

PayloadVariant(pv, url) ==
    IF pv = 0 THEN Payload("str", url, FALSE, <<>>) ELSE Payload("dict", url, FALSE, <<>>)

\* The listing check of the country_filter loop (services.py 1031-1045): the
\* first stream whose name holds the flow name and that has a country filter
\* whose 'payload' names the country.
RECURSIVE CountryListingCheck(_, _, _, _, _)
CountryListingCheck(flow_data, streams, k, name, country) ==
    IF k > Len(streams) THEN flow_data
    ELSE LET s == streams[k]
             hit == /\ NameIn(name, s.name)
                    /\ s.filters.form \in {"mode_payload", "payload"}
                    /\ Contains(UpperOf(country), s.filters.country)
             fd == IF hit THEN FlowData(s.id, s.name) ELSE flow_data
         IN  IF HasId(fd) THEN fd
             ELSE CountryListingCheck(fd, streams, k + 1, name, country)

\* One iteration of the country_filter loop (services.py 999-1052).  An
\* exception ends the iteration with `continue`, so the loops are left only
\* after the last payload variant.
CountryAttempt(fr, rem, r1, r2, up) ==
    LET kid == CampaignByPk(fr.campaign).keitaro_id
        fv == fr.i \div PayloadVariants
        pv == fr.i % PayloadVariants
        data == StreamData(kid, fr.name, "redirect",
                           PayloadVariant(pv, fr.redirect_url),
                           FilterVariant(fv, fr.country))
        g == create_flow(rem, data, r1, r2)
        fr1 == Tally(fr, g)
        lastInner == pv = PayloadVariants - 1
        lastAll == fr.i = FilterVariants * PayloadVariants - 1
        raised == g.kind \in {"raise", "raise500"}
        fd == IF ~raised
              THEN IF g.kind = "dict" THEN FlowData(g.id, g.name) ELSE NoData
              ELSE IF g.kind = "raise500" /\ up
              THEN CountryListingCheck(fr.flow_data, get_campaign_streams(g.remote, kid),
                                       1, fr.name, fr.country)
              ELSE fr.flow_data
        leave == IF raised THEN lastAll \/ (lastInner /\ HasId(fd))
                 ELSE lastAll \/ HasId(fd)
    IN  [frame |-> [fr1 EXCEPT !.flow_data = fd,
                               !.last_error = @ \/ raised,
                               !.i = IF leave THEN @ ELSE @ + 1,
                               !.pc = IF leave THEN "finish" ELSE "loop"],
         remote |-> g.remote]

CountryFinish_keeps_row(fr, db, rem, up, named) ==
    LET created == CreateFlow(db, fr.campaign, fr.flow_data.id, fr.flow_data.name,
                              "country_filter", fr.country, fr.redirect_url)
        found == find_existing_flow(db, rem, fr.campaign, fr.name, "country_filter",
                                    <<>>, fr.country, fr.redirect_url, up, named)
    IN  IF HasId(fr.flow_data) /\ ~created.raised
        THEN Step(Return(fr, fr.flow_data.id), created, rem)
        ELSE IF found.flow # Null
        THEN Step(Return(fr, found.flow), found.db, rem)
        ELSE Step(Fail(fr), created, rem)

\* What follows the country_filter loop (services.py 1054-1109).
CountryFinish(fr, db, rem, up, named) ==
    LET created == CreateFlow(db, fr.campaign, fr.flow_data.id, fr.flow_data.name,
                              "country_filter", fr.country, fr.redirect_url)
        found == find_existing_flow(db, rem, fr.campaign, fr.name, "country_filter",
                                    <<>>, fr.country, fr.redirect_url, up, named)
    IN  IF HasId(fr.flow_data) /\ ~created.raised
        THEN Step(Return(fr, fr.flow_data.id), created, rem)
        ELSE IF found.flow # Null
        THEN Step(Return(fr, found.flow), found.db, rem)
        ELSE Step(Fail(fr), found.db, rem)

\* offer_formats and attempts (services.py 1130-1145).
RECURSIVE OfferFormat(_, _)
OfferFormat(fmt, ids) ==
    IF ids = <<>> THEN <<>>
    ELSE <<CASE fmt = 0 -> Entry(Null, Head(ids), 1, Absent)
             [] fmt = 1 -> Entry(Head(ids), Null, 1, Absent)
             [] fmt = 2 -> Entry(Null, Head(ids), Absent, 1)
             [] OTHER   -> Entry(Head(ids), Null, Absent, 1)>>
         \o OfferFormat(fmt, Tail(ids))

AttemptSchema(att) == IF att = Attempts - 1 THEN "action" ELSE "landings"

\* The listing check of the offer_redirect loop (services.py 1173-1186): the
\* first stream whose name holds the flow name or whose root 'offers' hold
\* every requested offer.
RECURSIVE OfferListingCheck(_, _, _, _, _)
OfferListingCheck(flow_data, streams, k, name, ids) ==
    IF k > Len(streams) THEN flow_data
    ELSE LET s == streams[k] IN
         IF NameIn(name, s.name) \/ SeqToSet(ids) \subseteq OfferIdsOf(s.root)
         THEN FlowData(s.id, s.name)
         ELSE OfferListingCheck(flow_data, streams, k + 1, name, ids)

\* One iteration of the offer_redirect loop (services.py 1148-1192).
OfferAttempt(fr, rem, r1, r2, up) ==
    LET kid == CampaignByPk(fr.campaign).keitaro_id
        fmt == fr.i \div Attempts
        att == fr.i % Attempts
        data == StreamData(kid, fr.name, AttemptSchema(att),
                           Payload("dict", NoText, TRUE, OfferFormat(fmt, fr.offer_id_list)),
                           NoFilter)
        g == create_flow(rem, data, r1, r2)
        fr1 == Tally(fr, g)
        lastAll == fr.i = OfferFormats * Attempts - 1
        raised == g.kind \in {"raise", "raise500"}
        fd == IF ~raised
              THEN IF g.kind = "dict" THEN FlowData(g.id, g.name) ELSE NoData
              ELSE IF g.kind = "raise500" /\ up
              THEN OfferListingCheck(fr.flow_data, get_campaign_streams(g.remote, kid),
                                     1, fr.name, fr.offer_id_list)
              ELSE fr.flow_data
        leave == lastAll \/ HasId(fd)
    IN  [frame |-> [fr1 EXCEPT !.flow_data = fd,
                               !.last_error = @ \/ raised,
                               !.i = IF leave THEN @ ELSE @ + 1,
                               !.pc = IF leave THEN "finish" ELSE "loop"],
         remote |-> g.remote]

\* What follows the offer_redirect loop (services.py 1194-1219): without a
\* flow_data that has an id the call raises; the listing of lines 1220-1255
\* is never reached.
OfferFinish(fr, db, rem, named) ==
    LET created == CreateFlow(db, fr.campaign, fr.flow_data.id, fr.flow_data.name,
                              "offer_redirect", NoText, NoText)
    IN  IF ~HasId(fr.flow_data) THEN Step(Fail(fr), db, rem)
        ELSE IF created.raised THEN Step(Fail(fr), db, rem)
        ELSE IF created.overflow THEN Step(fr, created, rem)
        ELSE Step(Return(fr, fr.flow_data.id),
                  save_offers_to_db(created, fr.campaign, db.nextFlowPk,
                                    fr.offer_id_list, named),
                  rem)

\* ------------------------------------------------------------- campaign creation
MaxCampaignPk == 2

\* How the tracker answers POST /campaigns: "ok" (2xx with the campaign and
\* its id), "noid" (2xx with a body that has no id), "empty" (2xx without a
\* body), "err" (a failure).  It stores the campaign in the first two cases.
CampaignResponses == {"ok", "noid", "empty", "err"}

PostCampaign(rem, name, geo, resp) ==
    IF resp \notin {"ok", "noid"} THEN rem
    ELSE IF rem.nextCampaignId > MaxRemoteCampaigns THEN [rem EXCEPT !.overflow = TRUE]
    ELSE [rem EXCEPT !.campaigns = @ \cup {[id |-> rem.nextCampaignId, name |-> name, geo |-> geo]},
                     !.nextCampaignId = @ + 1,
                     !.returned = IF resp = "ok" THEN @ \cup {rem.nextCampaignId} ELSE @]

\* The id create_campaign_with_flows reads from the response (line 278).
ResponseId(rem, resp) == IF resp = "ok" THEN rem.nextCampaignId ELSE Null

\* Campaign.objects.create without the check of the returned id.
persist_unchecked(cs, campaign_id, name, geo, offer_id, resp) ==
    IF resp \in {"err", "empty"} THEN [campaigns |-> cs, pk |-> Null]
    ELSE LET pk == MaxOf({r.pk : r \in cs}) + 1 IN
         [campaigns |-> cs \cup {Campaign(pk, campaign_id, name, geo, offer_id)}, pk |-> pk]

\* create_campaign_with_flows from the response to the Campaign row
\* (services.py 278-291): the request raised ("err"), campaign_data is None
\* ("empty": .get raises), the id is missing (ValueError), or the row is
\* created; keitaro_id is unique.  pk is the new row's key, Null when the call
\* raised.
persist_campaign(cs, campaign_id, name, geo, offer_id, resp) ==
    IF resp \in {"err", "empty"} THEN [campaigns |-> cs, pk |-> Null]
    ELSE IF campaign_id = Null THEN [campaigns |-> cs, pk |-> Null]
    ELSE IF \E r \in cs : r.keitaro_id = campaign_id THEN [campaigns |-> cs, pk |-> Null]
    ELSE LET pk == MaxOf({r.pk : r \in cs}) + 1 IN
         [campaigns |-> cs \cup {Campaign(pk, campaign_id, name, geo, offer_id)}, pk |-> pk]

Google == <<"google">>

Flow1Name(geo) == <<"Flow 1", " - ">> \o geo \o <<" to Google">>

Flow2Name(offer_id) == <<"Flow 2", " - ", "Offer ", ToString(offer_id)>>

\* The listing check for the first flow (services.py 325-340, 345-360): the
\* first stream named like it that the store does not hold yet.
RECURSIVE ImportFirstFlow(_, _, _, _, _)
ImportFirstFlow(db, streams, k, c, geo) ==
    IF k > Len(streams) THEN db
    ELSE LET s == streams[k]
             hit == \/ Contains(geo \o <<" to Google">>, s.name)
                    \/ Contains(<<"Flow 1">>, s.name)
         IN  IF hit /\ ~\E r \in db.flows : r.keitaro_id = s.id
             THEN CreateFlow(db, c, s.id, s.name, "country_filter", geo, Google)
             ELSE ImportFirstFlow(db, streams, k + 1, c, geo)

\* A first flow whose failed create call ends the whole call.
FirstFlow_stops(fr, db, rem, r1, r2, up) ==
    LET kid == CampaignByPk(fr.campaign).keitaro_id
        geo == fr.country
        data == StreamData(kid, Flow1Name(geo), "redirect",
                           Payload("dict", Google, FALSE, <<>>),
                           Filter("operator_value", geo))
        g == create_flow(rem, data, r1, r2)
        created == CreateFlow(db, fr.campaign, g.id, g.name, "country_filter", geo, Google)
    IN  IF g.kind = "dict" /\ ~created.raised
        THEN Step([Tally(fr, g) EXCEPT !.pc = "flow2"], created, g.remote)
        ELSE Step(Fail(Tally(fr, g)), db, g.remote)

\* The first flow of create_campaign_with_flows (services.py 293-362).
FirstFlow_of_campaign(fr, db, rem, r1, r2, up) ==
    LET kid == CampaignByPk(fr.campaign).keitaro_id
        geo == fr.country
        data == StreamData(kid, Flow1Name(geo), "redirect",
                           Payload("dict", Google, FALSE, <<>>),
                           Filter("operator_value", geo))
        g == create_flow(rem, data, r1, r2)
        created == CreateFlow(db, fr.campaign, g.id, g.name, "country_filter", geo, Google)
        checked == IF up
                   THEN ImportFirstFlow(db, get_campaign_streams(g.remote, kid), 1,
                                        fr.campaign, geo)
                   ELSE db
    IN  Step([Tally(fr, g) EXCEPT !.pc = "flow2"],
             IF g.kind = "dict" /\ ~created.raised THEN created ELSE checked,
             g.remote)

\* _get_schema_for_offers over the values of the schema catalogue.
get_schema_for_offers(schemas) ==
    IF \E k \in 1..Len(schemas) : schemas[k] = "landings" THEN "landings"
    ELSE IF schemas # <<>> THEN schemas[1]
    ELSE "landings"

\* The loop of _check_and_save_flow_if_exists (services.py 195-245).  An
\* exception inside it is caught by the function, which then returns None;
\* what was written before stays.
RECURSIVE CheckInStreams(_, _, _, _, _, _)
CheckInStreams(db, streams, k, c, offer_id, offer_name) ==
    IF k > Len(streams) THEN Found(db, Null)
    ELSE LET s == streams[k]
             stream_offers == IF s.payload = "dict" THEN s.nested ELSE <<>>
             broken == \/ s.payload \in {"text", "json"}
                       \/ \E j \in 1..Len(stream_offers) : ~stream_offers[j].isdict
             has_our_offer == \E j \in 1..Len(stream_offers) : stream_offers[j].id = offer_id
             hit == \/ Contains(<<"Offer ", ToString(offer_id)>>, s.name)
                    \/ Contains(<<"Flow 2">>, s.name)
                    \/ has_our_offer
             existing == {r \in db.flows : r.keitaro_id = s.id}
             row == Offer(db, c, offer_id)
         IN  IF broken THEN Found(db, Null)
             ELSE IF ~hit THEN CheckInStreams(db, streams, k + 1, c, offer_id, offer_name)
             ELSE IF existing = {}
             THEN LET db1 == CreateFlow(db, c, s.id, s.name, "offer_redirect", NoText, NoText)
                      db2 == CreateOffer(db1, c, db.nextFlowPk, offer_id, offer_name, 1)
                  IN  IF db1.overflow THEN Found(db1, Null)
                      ELSE IF db2.raised THEN Found(db1, Null)
                      ELSE Found(db2, s.id)
             ELSE LET f == FirstFlow(existing) IN
                  IF row = {}
                  THEN Found(CreateOffer(db, c, f.pk, offer_id, offer_name, 1), f.keitaro_id)
                  ELSE Found(SaveOffer(db, [FirstOffer(row) EXCEPT !.flow = f.pk,
                                                                  !.status = "active"]),
                             f.keitaro_id)

check_and_save_flow_if_exists(db, rem, c, campaign_id, offer_id, offer_name, up) ==
    IF ~up THEN Found(db, Null)
    ELSE CheckInStreams(db, get_campaign_streams(rem, campaign_id), 1, c, offer_id, offer_name)

\* The offer row without a flow that the except branch falls back to
\* (services.py 425-437); a failure to create it is logged only.
OfferWithoutFlow(db, made) == IF made.raised THEN db ELSE made

\* The except branch of the second flow (services.py 421-437).
RescueRows(checked, c, offer_id, offer_name) ==
    IF checked.flow # Null THEN checked.db
    ELSE OfferWithoutFlow(checked.db,
                          CreateOffer(checked.db, c, Null, offer_id, offer_name, 1))

SecondFlowRescue(written, rem, c, campaign_id, offer_id, offer_name, up) ==
    RescueRows(check_and_save_flow_if_exists(written, rem, c, campaign_id,
                                             offer_id, offer_name, up),
               c, offer_id, offer_name)

\* The rows of a created second flow (services.py 391-408): the Flow row,
\* then the offer row; a failure of either leads to the except branch with
\* what was written before.
SecondFlowOffer(withFlow, withOffer, rem, c, campaign_id, offer_id, offer_name, up) ==
    IF withOffer.overflow \/ ~withOffer.raised THEN withOffer
    ELSE SecondFlowRescue(withFlow, rem, c, campaign_id, offer_id, offer_name, up)

SecondFlowStore(db, withFlow, rem, c, campaign_id, offer_id, offer_name, up) ==
    IF withFlow.overflow THEN withFlow
    ELSE IF withFlow.raised
    THEN SecondFlowRescue(db, rem, c, campaign_id, offer_id, offer_name, up)
    ELSE SecondFlowOffer(withFlow,
                         CreateOffer(withFlow, c, db.nextFlowPk, offer_id, offer_name, 1),
                         rem, c, campaign_id, offer_id, offer_name, up)

\* What the second flow writes for the outcome g of its create call
\* (services.py 389-437).
SecondFlowRows(db, g, c, campaign_id, offer_id, offer_name, up) ==
    IF g.kind = "dict"
    THEN SecondFlowStore(db,
                         CreateFlow(db, c, g.id, g.name, "offer_redirect", NoText, NoText),
                         g.remote, c, campaign_id, offer_id, offer_name, up)
    ELSE IF g.kind = "none"
    THEN check_and_save_flow_if_exists(db, g.remote, c, campaign_id,
                                       offer_id, offer_name, up).db
    ELSE SecondFlowRescue(db, g.remote, c, campaign_id, offer_id, offer_name, up)

SecondFlowData(campaign_id, offer_id, schemas) ==
    StreamData(campaign_id, Flow2Name(offer_id), get_schema_for_offers(schemas),
               Payload("dict", NoText, TRUE, <<Entry(Null, offer_id, 1, Absent)>>),
               NoFilter)

SecondFlowDone(fr, db, g, campaign_id, offer_id, offer_name, up) ==
    Step([Tally(fr, g) EXCEPT !.pc = "done", !.result = "campaign"],
         SecondFlowRows(db, g, fr.campaign, campaign_id, offer_id, offer_name, up),
         g.remote)

\* The second flow of create_campaign_with_flows (services.py 364-439).
SecondFlow_of_campaign(fr, db, rem, schemas, r1, r2, up, named) ==
    SecondFlowDone(fr, db,
                   create_flow(rem,
                               SecondFlowData(CampaignByPk(fr.campaign).keitaro_id,
                                              fr.offer_id_list[1], schemas),
                               r1, r2),
                   CampaignByPk(fr.campaign).keitaro_id,
                   fr.offer_id_list[1],
                   LookupName(named, fr.offer_id_list[1]),
                   up)

\* A campaign of the listing GET /campaigns returns: id is Null when the
\* entry has none.
Listed(id, name, geo) == [id |-> id, name |-> name, geo |-> geo]

\* A sync that inserts a row for every entry it is given.
SyncCampaign_inserts(cs, e) ==
    IF e.id = Null THEN cs
    ELSE cs \cup {Campaign(MaxOf({r.pk : r \in cs}) + 1, e.id, e.name, e.geo, 0)}

\* One entry of the listing in sync_active_campaigns_from_api (services.py
\* 803-849): get_or_create by keitaro_id, then the refresh of a row found.
SyncCampaign(cs, e) ==
    LET found == {r \in cs : r.keitaro_id = e.id} IN
    IF e.id = Null THEN cs
    ELSE IF found = {}
    THEN cs \cup {Campaign(MaxOf({r.pk : r \in cs}) + 1, e.id, e.name, e.geo, 0)}
    ELSE {IF r \in found THEN [r EXCEPT !.name = e.name, !.geo = e.geo] ELSE r : r \in cs}

RECURSIVE SyncCampaigns(_, _, _)
SyncCampaigns(cs, api_campaigns, k) ==
    IF k > Len(api_campaigns) THEN cs
    ELSE SyncCampaigns(SyncCampaign(cs, api_campaigns[k]), api_campaigns, k + 1)

\* A sync that deletes the rows whose remote id the listing does not name.
sync_and_prune(cs, api_campaigns, up) ==
    IF ~up \/ api_campaigns = <<>> THEN cs
    ELSE {r \in SyncCampaigns(cs, api_campaigns, 1) :
             \E k \in 1..Len(api_campaigns) : api_campaigns[k].id = r.keitaro_id}

\* sync_active_campaigns_from_api; up is whether the listing request
\* succeeds.  An empty listing and a failure leave the store as it is.
sync_active_campaigns_from_api(cs, api_campaigns, up) ==
    IF ~up \/ api_campaigns = <<>> THEN cs
    ELSE SyncCampaigns(cs, api_campaigns, 1)

\* The list the sync returns (services.py 801, 846, 859, 870), as the keys of
\* its rows: the row get_or_create handed back for each entry that has an id;
\* cs is the store the sync leaves.
RECURSIVE ActiveCampaigns(_, _, _)
ActiveCampaigns(cs, api_campaigns, k) ==
    IF k > Len(api_campaigns) THEN <<>>
    ELSE LET e == api_campaigns[k]
             found == {r \in cs : r.keitaro_id = e.id}
         IN  (IF e.id = Null \/ found = {} THEN <<>>
              ELSE <<(CHOOSE r \in found : TRUE).pk>>)
             \o ActiveCampaigns(cs, api_campaigns, k + 1)

\* A sync that returns every row of the store.
active_campaigns_all(cs, api_campaigns, up) ==
    SeqOfSet({r.pk : r \in cs})

active_campaigns(cs, api_campaigns, up) ==
    IF ~up \/ api_campaigns = <<>> THEN <<>>
    ELSE ActiveCampaigns(cs, api_campaigns, 1)

\* ------------------------------------------------------------- operations
\* What `last` records of the operation that ran last: its name and arguments,
\* whether it returned (ok) or raised, for a push the request it sent (put),
\* for a drift sync whether it asked the tracker for the listing (asked),
\* for a campaign sync whether the listing request was answered, the remote
\* ids the listing named (listed) and the keys of the rows it returned
\* (active),
\* for a drift sync the offer ids its
\* listing names and the number of streams listed, and in `pre` what the
\* operation found: the status of the offer it was called for ("none": no
\* row), whether the flow had has_changes set, and for a cancel the number of
\* active and of removed offers of the flow stamped later than the flow.
Pre(status, hc, added, removed) ==
    [status |-> status, hc |-> hc, added |-> added, removed |-> removed]

NoPre == Pre("none", FALSE, 0, 0)

Op(name, c, oid, f, w, ok, listing, pre) ==
    [op |-> name, campaign |-> c, offer_id |-> oid, flow |-> f, weight |-> w,
     ok |-> ok, listed |-> ListedIds(listing), streams |-> Len(listing), pre |-> pre,
     put |-> NoPut, asked |-> FALSE, answered |-> TRUE, active |-> <<>>,
     seen |-> {}, swept |-> {}]

NoOp == Op("none", Null, Null, Null, Null, TRUE, <<>>, NoPre)

Store == Db(flows, offers, nextFlowPk, nextOfferPk)

\* The rows an operation leaves behind: writes made before a raise stay.
CommitRows(db) ==
    /\ ~db.overflow
    /\ LET n == Normalize(db) IN
       /\ flows' = n.flows
       /\ offers' = n.offers
       /\ nextFlowPk' = db.nextFlowPk
       /\ nextOfferPk' = db.nextOfferPk

Commit(db) == CommitRows(db) /\ UNCHANGED <<campaigns, remote, call>>

FlowOf(c, oid) ==
    LET S == {r \in offers : r.campaign = c /\ r.offer_id = oid} IN
    IF S = {} THEN Null ELSE FirstOffer(S).flow

StatusOf(c, oid) ==
    LET S == {r \in offers : r.campaign = c /\ r.offer_id = oid} IN
    IF S = {} THEN "none" ELSE FirstOffer(S).status

HasChanges(f) == f # Null /\ \E r \in flows : r.pk = f /\ r.has_changes

PreOffer(c, oid) == Pre(StatusOf(c, oid), HasChanges(FlowOf(c, oid)), 0, 0)

PreCancel(flow) ==
    Pre("none", flow.has_changes,
        Cardinality({r \in offers : r.flow = flow.pk /\ r.status = "active"
                                     /\ r.updated_at > flow.updated_at}),
        Cardinality({r \in offers : r.flow = flow.pk /\ r.status = "removed"
                                     /\ r.updated_at > flow.updated_at}))

\* The view reads the campaign, calls the service and renders; named are the
\* offers whose display name the remote returns.
\* The offer ids of the rows a sync found active and left removed, which
\* only its closing sweep does (services.py 699-712).
Swept(before, after) ==
    {r.offer_id : r \in {x \in before : /\ x.status = "active"
                                         /\ \E q \in after : q.pk = x.pk /\ q.status = "removed"}}

FetchStreams ==
    \E c \in campaigns, listing \in Listings(StreamIds), named \in {OfferIds} :
        LET db == fetch_streams_from_keitaro(Store, c.pk, listing, named) IN
        /\ Commit(db)
        /\ last' = [Op("fetch", c.pk, Null, Null, Null, ~db.raised, listing, NoPre)
                        EXCEPT !.asked = streams_requested(c.pk),
                               !.seen = db.seen,
                               !.swept = Swept(offers, db.offers)]

AddOffer ==
    \E c \in campaigns, oid \in OfferIds, w \in Weights :
        LET db == add_offer_to_campaign(Store, c.pk, oid, w, OfferNameOf(oid)) IN
        /\ Commit(db)
        /\ last' = Op("add", c.pk, oid, FlowOf(c.pk, oid), w, ~db.raised, <<>>,
                      PreOffer(c.pk, oid))

RemoveOffer ==
    \E c \in campaigns, oid \in OfferIds :
        LET db == remove_offer_from_campaign(Store, c.pk, oid) IN
        /\ Commit(db)
        /\ last' = Op("remove", c.pk, oid, FlowOf(c.pk, oid), Null, ~db.raised, <<>>,
                      PreOffer(c.pk, oid))

BringBack ==
    \E c \in campaigns, oid \in OfferIds :
        LET db == bring_back_offer(Store, c.pk, oid) IN
        /\ Commit(db)
        /\ last' = Op("restore", c.pk, oid, FlowOf(c.pk, oid), Null, ~db.raised, <<>>,
                      PreOffer(c.pk, oid))

Pin ==
    \E offer \in offers :
        LET db == pin_offer_weight(Store, offer) IN
        /\ Commit(db)
        /\ last' = Op("pin", offer.campaign, offer.offer_id, offer.flow, offer.weight, TRUE,
                      <<>>, NoPre)

Unpin ==
    \E offer \in offers :
        LET db == unpin_offer_weight(Store, offer) IN
        /\ Commit(db)
        /\ last' = Op("unpin", offer.campaign, offer.offer_id, offer.flow, Null, TRUE, <<>>, NoPre)

\* updated: whether the remote accepted the PUT.
Push ==
    \E flow \in flows, updated \in BOOLEAN :
        LET db == push_flow_to_keitaro(Store, flow, updated) IN
        /\ Commit(db)
        /\ last' = [Op("push", flow.campaign, Null, flow.pk, Null, ~db.raised, <<>>, NoPre)
                        EXCEPT !.put = update_flow_request(Store, flow)]

DeleteFlow ==
    \E flow \in flows, deleted \in BOOLEAN :
        /\ CommitRows(delete_flow(Store, flow, deleted))
        /\ remote' = DeleteStream(remote, flow, deleted)
        /\ last' = [Op("delete_flow", flow.campaign, Null, flow.pk, Null, TRUE, <<>>, NoPre)
                        EXCEPT !.asked = flow.keitaro_id # Null,
                               !.answered = deleted]
        /\ UNCHANGED <<campaigns, call>>

Cancel ==
    \E flow \in flows :
        LET db == cancel_flow_changes(Store, flow) IN
        /\ Commit(db)
        /\ last' = Op("cancel", flow.campaign, Null, flow.pk, Null, ~db.raised, <<>>,
                      PreCancel(flow))

\* ------------------------------------------------------------- creation calls
\* What the form of the edit view may hand to create_flow_for_campaign.
FlowNames == {<<"f">>, <<"F", "a", "u">>}
FlowTypes == {"country_filter", "offer_redirect", "other"}
Urls == {NoText, <<"g">>}
Countries == {NoText, <<"a", "u">>}
OfferIdInputs == {<<>>, <<" ">>, <<"x">>, <<"1", "x">>, <<"1">>, <<"1", "2">>}

\* create_flow_for_campaign up to its first remote call.
BeginCreateFlow ==
    /\ call.pc = "idle"
    /\ \E c \in campaigns, name \in FlowNames, flow_type \in FlowTypes,
          url \in Urls, country \in Countries, pieces \in OfferIdInputs :
        /\ flow_type = "country_filter" => pieces = <<>>
        /\ flow_type # "country_filter" => url = NoText /\ country = NoText
        /\ call' = Validate(c, name, flow_type, url, country, pieces)
    /\ UNCHANGED <<campaigns, flows, offers, nextFlowPk, nextOfferPk, last, remote>>

\* One iteration of its loop over the request variants: r1 and r2 are the
\* tracker's answers to the POST and to the repeated POST, up is whether the
\* listing that follows a 500 error is answered.
AttemptCreateFlow ==
    /\ call.pc = "loop"
    /\ \E r1 \in CreateResponses, r2 \in CreateResponses, up \in BOOLEAN :
        LET st == IF call.flow_type = "country_filter"
                  THEN CountryAttempt(call, remote, r1, r2, up)
                  ELSE OfferAttempt(call, remote, r1, r2, up)
        IN  /\ ~Is500(r1) => r2 = "err"
            /\ ~(Is500(r1) /\ r2 = "err") => up
            /\ ~st.remote.overflow
            /\ remote' = st.remote
            /\ call' = st.frame
    /\ UNCHANGED <<campaigns, flows, offers, nextFlowPk, nextOfferPk, last>>

\* What follows the loop: the Flow row, the search of the listing, or the
\* error.  named holds the offers whose name the tracker hands out when
\* _save_offers_to_db asks for it.
FinishCreateFlow ==
    /\ call.pc = "finish"
    /\ \E up \in BOOLEAN, named \in SUBSET OfferIds :
        LET st == IF call.flow_type = "country_filter"
                  THEN CountryFinish(call, Store, remote, up, named)
                  ELSE OfferFinish(call, Store, remote, named)
        IN  /\ call.flow_type # "country_filter" => up
            /\ call.flow_type = "country_filter" => named = OfferIds
            /\ CommitRows(st.db)
            /\ call' = st.frame
    /\ UNCHANGED <<campaigns, last, remote>>

\* What the creation form may hand to create_campaign_with_flows, and the
\* schema catalogues the tracker may serve.
CampaignNames == {<<"c">>, <<"d">>}
Geos == {<<"A", "U">>}
Catalogues == {<<>>, <<"redirect">>, <<"redirect", "landings">>}

\* create_campaign_with_flows up to the Campaign row; `call` is its record
\* and replaces that of the operation before.
BeginCreateCampaign ==
    /\ call.pc \in {"idle", "done"}
    /\ \E name \in CampaignNames, geo \in Geos, offer_id \in OfferIds,
          resp \in CampaignResponses :
        LET rem == PostCampaign(remote, name, geo, resp)
            made == persist_campaign(campaigns, ResponseId(remote, resp), name, geo,
                                     offer_id, resp)
            fr == Frame("flow1", "create_campaign", made.pk, name, "none", geo, NoText,
                        <<offer_id>>)
        IN  /\ ~rem.overflow
            /\ made.pk <= MaxCampaignPk
            /\ remote' = rem
            /\ campaigns' = made.campaigns
            /\ call' = IF made.pk = Null THEN Fail(fr) ELSE fr
    /\ last' = NoOp
    /\ UNCHANGED <<flows, offers, nextFlowPk, nextOfferPk>>

\* Its first flow: the create call and the listing check.
CreateFirstFlow ==
    /\ call.pc = "flow1"
    /\ \E r1 \in CreateResponses, r2 \in CreateResponses, up \in BOOLEAN :
        LET st == FirstFlow_of_campaign(call, Store, remote, r1, r2, up) IN
        /\ ~Is500(r1) => r2 = "err"
        /\ ~st.remote.overflow
        /\ CommitRows(st.db)
        /\ remote' = st.remote
        /\ call' = st.frame
    /\ UNCHANGED <<campaigns, last>>

\* Its second flow and the offer row.
CreateSecondFlow ==
    /\ call.pc = "flow2"
    /\ \E schemas \in Catalogues, r1 \in CreateResponses, r2 \in CreateResponses,
          up \in BOOLEAN, named \in {OfferIds} :
        LET st == SecondFlow_of_campaign(call, Store, remote, schemas, r1, r2, up, named) IN
        /\ ~Is500(r1) => r2 = "err"
        /\ ~st.remote.overflow
        /\ CommitRows(st.db)
        /\ remote' = st.remote
        /\ call' = st.frame
    /\ UNCHANGED <<campaigns, last>>

\* The listings GET /campaigns may return: the tracker's campaigns that are
\* active, in its order, with or without an entry that has no id before them.
RECURSIVE CampaignsById(_)
CampaignsById(S) ==
    IF S = {} THEN <<>>
    ELSE LET e == CHOOSE x \in S : \A y \in S : x.id <= y.id
         IN  <<e>> \o CampaignsById(S \ {e})

CampaignListings(rem) ==
    {CampaignsById(A) : A \in SUBSET rem.campaigns}
    \cup {<<Listed(Null, <<"c">>, <<"A", "U">>)>> \o CampaignsById(A) :
             A \in SUBSET rem.campaigns}

\* The campaign list view calls sync_active_campaigns_from_api; `last` is
\* its record and no creation call is running.
SyncActiveCampaigns ==
    /\ call.pc \in {"idle", "done"}
    /\ \E api_campaigns \in CampaignListings(remote), up \in BOOLEAN :
        LET cs == sync_active_campaigns_from_api(campaigns, api_campaigns, up) IN
        /\ \A r \in cs : r.pk <= MaxCampaignPk
        /\ campaigns' = cs
        /\ remote' = IF up
                     THEN [remote EXCEPT !.returned =
                              @ \cup ({api_campaigns[k].id : k \in 1..Len(api_campaigns)} \ {Null})]
                     ELSE remote
        /\ last' = [Op("sync_campaigns", Null, Null, Null, Null, TRUE, <<>>, NoPre)
                        EXCEPT !.answered = up,
                               !.listed = IF up
                                          THEN {api_campaigns[k].id :
                                                   k \in 1..Len(api_campaigns)} \ {Null}
                                          ELSE {},
                               !.active = active_campaigns(cs, api_campaigns, up)]
        /\ call' = Idle
    /\ UNCHANGED <<flows, offers, nextFlowPk, nextOfferPk>>

\* ------------------------------------------------------------- specification
\* The store after one campaign was mirrored (sync_active_campaigns_from_api
\* creates the Campaign row alone); flows and offers arrive by drift sync.
Init ==
    /\ campaigns = {Campaign(1, 1, <<"c">>, <<"A", "U">>, 0)}
    /\ flows = {}
    /\ offers = {}
    /\ nextFlowPk = 1
    /\ nextOfferPk = 1
    /\ last = NoOp
    /\ remote = [campaigns |-> {[id |-> 1, name |-> <<"c">>, geo |-> <<"A", "U">>]},
                 streams |-> {}, nextCampaignId |-> 2, nextStreamId |-> 1,
                 returned |-> {1}, overflow |-> FALSE]
    /\ call = Idle

Next ==
    \/ FetchStreams
    \/ AddOffer
    \/ RemoveOffer
    \/ BringBack
    \/ Pin
    \/ Unpin
    \/ Push
    \/ Cancel

Spec == Init /\ [][Next]_vars

\* The streams an earlier creation call left on the tracker for campaign 1.
EarlierStreams ==
    {[StreamData(1, name, "redirect", PayloadVariant(pv, <<"g">>),
                 FilterVariant(fv, <<"a", "u">>)) EXCEPT !.id = 1] :
        name \in FlowNames, pv \in {0, 1}, fv \in {0, 1}}
    \cup {[StreamData(1, name, AttemptSchema(att),
                      Payload("dict", NoText, TRUE, OfferFormat(0, <<1>>)), NoFilter)
              EXCEPT !.id = 1] :
             name \in FlowNames, att \in {0, Attempts - 1}}

\* One create_flow_for_campaign call on campaign 1.  The tracker is empty or
\* holds a stream of an earlier call, which the store may or may not mirror as
\* a Flow row; offer 1 may have been added to the campaign before, with no
\* flow.
InitCreate ==
    /\ campaigns = {Campaign(1, 1, <<"c">>, <<"A", "U">>, 0)}
    /\ \E added \in BOOLEAN :
        /\ offers = IF added
                    THEN {CampaignOffer(1, 1, Null, 1, OfferNameOf(1), 2, Older)}
                    ELSE {}
        /\ nextOfferPk = IF added THEN 2 ELSE 1
    /\ last = NoOp
    /\ call = Idle
    /\ \E S \in {{}} \cup {{s} : s \in EarlierStreams}, mirrored \in BOOLEAN :
        /\ S = {} => ~mirrored
        /\ remote = [campaigns |-> {[id |-> 1, name |-> <<"c">>, geo |-> <<"A", "U">>]},
                     streams |-> S, nextCampaignId |-> 2,
                     nextStreamId |-> Cardinality(S) + 1,
                     returned |-> {1}, overflow |-> FALSE]
        /\ flows = IF mirrored
                   THEN {Flow(1, 1, s.id, s.name,
                              IF s.root = <<>> /\ s.nested = <<>>
                              THEN "country_filter" ELSE "offer_redirect",
                              NoText, NoText, FlowStamp) : s \in S}
                   ELSE {}
        /\ nextFlowPk = IF mirrored THEN 2 ELSE 1

\* An empty store beside a tracker that holds nothing, or one campaign that
\* was made in its own interface.
InitCampaigns ==
    /\ campaigns = {}
    /\ flows = {}
    /\ offers = {}
    /\ nextFlowPk = 1
    /\ nextOfferPk = 1
    /\ last = NoOp
    /\ call = Idle
    /\ \E S \in {{}, {Listed(1, <<"c">>, <<"A", "U">>)}} :
        remote = [campaigns |-> S, streams |-> {}, nextCampaignId |-> Cardinality(S) + 1,
                  nextStreamId |-> 1, returned |-> {}, overflow |-> FALSE]

\* Campaign creation and the mirroring of the tracker's campaigns.
NextCampaigns ==
    \/ BeginCreateCampaign
    \/ CreateFirstFlow
    \/ CreateSecondFlow
    \/ SyncActiveCampaigns

SpecCampaigns == InitCampaigns /\ [][NextCampaigns]_vars

\* create_flow_for_campaign against a tracker that answers as it likes.
NextCreate ==
    \/ BeginCreateFlow
    \/ AttemptCreateFlow
    \/ FinishCreateFlow

SpecCreate == InitCreate /\ [][NextCreate]_vars

\* A store as the models admit it (keitaro_id is nullable on Campaign and on
\* Flow, models.py 7 and 29): one campaign with or without a remote id, a
\* flow with or without one, with or without unpublished changes, beside a
\* second flow, and offer rows of either status, bound to either flow or to none.
StoredOffers(oid) ==
    {{}} \cup
    {{[CampaignOffer(oid, 1, f, oid, OfferNameOf(oid), w, Older) EXCEPT !.status = st]} :
        f \in {Null, 1, 2}, w \in Weights, st \in {"active", "removed"}}

\* A second offer of the first flow, or of the second.
OtherOffers(oid) ==
    {{},
     {CampaignOffer(oid, 1, 1, oid, OfferNameOf(oid), 2, Older)},
     {[CampaignOffer(oid, 1, 1, oid, OfferNameOf(oid), 2, Older) EXCEPT !.status = "removed"]},
     {CampaignOffer(oid, 1, 2, oid, OfferNameOf(oid), 1, Older)}}

InitStore ==
    /\ \E ck \in {Null, 1} :
          campaigns = {Campaign(1, ck, <<"c">>, <<"A", "U">>, 0)}
    /\ \E fk \in {Null, 1}, hc \in BOOLEAN :
          flows = {[Flow(1, 1, fk, <<"f">>, "offer_redirect", NoText, NoText, FlowStamp)
                       EXCEPT !.has_changes = hc],
                   Flow(2, 1, 2, <<"g">>, "offer_redirect", NoText, NoText, FlowStamp)}
    /\ \E a \in StoredOffers(1), b \in OtherOffers(2) : offers = a \cup b
    /\ nextFlowPk = 3
    /\ nextOfferPk = MaxOf({r.pk : r \in offers}) + 1
    /\ last = NoOp
    /\ remote = [campaigns |-> {[id |-> 1, name |-> <<"c">>, geo |-> <<"A", "U">>]},
                 streams |-> {}, nextCampaignId |-> 2, nextStreamId |-> 1,
                 returned |-> {1}, overflow |-> FALSE]
    /\ call = Idle

\* The views that work on rows the store holds.
NextStore ==
    \/ RemoveOffer
    \/ BringBack
    \/ Pin
    \/ Unpin
    \/ Push
    \/ Cancel

SpecStore == InitStore /\ [][NextStore]_vars

\* One create_campaign_with_flows call beside requests of other users: the
\* views that add and remove offers of the new campaign run between its steps.
Running == call.pc \in {"flow1", "flow2"}

NextInterleaved ==
    \/ call.pc = "idle" /\ BeginCreateCampaign
    \/ CreateFirstFlow
    \/ CreateSecondFlow
    \/ Running /\ AddOffer /\ last'.campaign = call.campaign
    \/ Running /\ RemoveOffer /\ last'.campaign = call.campaign

SpecInterleaved == Init /\ [][NextInterleaved]_vars

\* The operations that check their arguments first, on a store whose
\* campaign and flow may lack a remote id; the creation call is followed up to
\* its first remote request.
InitValidation ==
    /\ \E ck \in {Null, 1} :
          campaigns = {Campaign(1, ck, <<"c">>, <<"A", "U">>, 0)}
    /\ \E fk \in {Null, 1} :
          flows = {Flow(1, 1, fk, <<"f">>, "offer_redirect", NoText, NoText, FlowStamp)}
    /\ \E bound \in BOOLEAN :
        /\ offers = IF bound
                    THEN {CampaignOffer(1, 1, 1, 1, OfferNameOf(1), 1, Older)}
                    ELSE {}
        /\ nextOfferPk = IF bound THEN 2 ELSE 1
    /\ nextFlowPk = 2
    /\ last = NoOp
    /\ remote = [campaigns |-> {[id |-> 1, name |-> <<"c">>, geo |-> <<"A", "U">>]},
                 streams |-> {}, nextCampaignId |-> 2, nextStreamId |-> 1,
                 returned |-> {1}, overflow |-> FALSE]
    /\ call = Idle

NextValidation ==
    \/ call.pc = "idle" /\ FetchStreams
    \/ call.pc = "idle" /\ Push
    \/ call.pc = "idle" /\ DeleteFlow
    \/ BeginCreateFlow

SpecValidation == InitValidation /\ [][NextValidation]_vars

\* ------------------------------------------------------------- gateway responses
\* A decoded JSON value as far as the list calls look at it: its type and,
\* for a list, its items.
Json(t, items) == [t |-> t, items |-> items]

Missing == Json("missing", <<>>)

EmptyList == Json("list", <<>>)

\* The values an object of a response may hold under a key.
WrappedValues ==
    {Json("list", q) : q \in {<<>>, <<1>>, <<1, 2>>}}
    \cup {Json("null", <<>>), Json("str", <<>>), Json("int", <<>>)}

\* The body of a 2xx response: a bare array, an object that may hold a value
\* under 'data' and one under the key named after the endpoint (own), null,
\* or a string.
Body(t, items, data, own) == [t |-> t, items |-> items, data |-> data, own |-> own]

Bodies ==
    {Body("list", q, Missing, Missing) : q \in {<<>>, <<1>>, <<1, 2>>}}
    \cup {Body("dict", <<>>, d, o) : d \in WrappedValues \cup {Missing},
                                    o \in WrappedValues \cup {Missing}}
    \cup {Body("null", <<>>, Missing, Missing), Body("str", <<>>, Missing, Missing)}

\* What a gateway call does with a body: the value it returns, or the error
\* it raises.
Returns(v) == [raised |-> FALSE, value |-> v]

Raises == [raised |-> TRUE, value |-> Missing]

\* len() of a value: None and numbers have none.
HasLen(v) == v.t \in {"list", "str", "dict"}

\* The value wrapped in an object, as get_campaigns and get_campaign_streams
\* take it (keitaro_api.py 149-152, 184-187): its length is logged first.
Unwrap(v) ==
    IF ~HasLen(v) THEN Raises
    ELSE Returns(IF v.t = "list" THEN v ELSE EmptyList)

\* get_campaigns and get_campaign_streams after the request (keitaro_api.py
\* 144-159, 179-194).
ListOrWrapped(response) ==
    IF response.t = "list" THEN Returns(Json("list", response.items))
    ELSE IF response.t = "dict" /\ response.data # Missing THEN Unwrap(response.data)
    ELSE IF response.t = "dict" /\ response.own # Missing THEN Unwrap(response.own)
    ELSE Returns(EmptyList)

\* get_stream_schemas, get_streams_actions and get_stream_filters after the
\* request (keitaro_api.py 198-203, 207-212, 217-222).
ListOrOwnKey(response) ==
    IF response.t = "list" THEN Returns(Json("list", response.items))
    ELSE IF response.t = "dict" /\ response.own # Missing THEN Returns(response.own)
    ELSE Returns(EmptyList)

\* get_offers after the request (keitaro_api.py 329-330).
get_offers(response) ==
    IF response.t = "list" THEN Returns(Json("list", response.items))
    ELSE Returns(EmptyList)

Endpoints ==
    {"get_campaigns", "get_campaign_streams", "get_offers",
     "get_stream_schemas", "get_streams_actions", "get_stream_filters"}

ListCall(endpoint, response) ==
    CASE endpoint \in {"get_campaigns", "get_campaign_streams"} -> ListOrWrapped(response)
      [] endpoint = "get_offers" -> get_offers(response)
      [] OTHER -> ListOrOwnKey(response)

\* What _make_request hands to its caller, as the caller can tell it apart.
Returned(g) == [kind |-> g.kind, id |-> g.id, name |-> g.name]

\* A list call on a 2xx response.
GetList ==
    /\ \E endpoint \in Endpoints, response \in Bodies :
          last' = [op |-> endpoint, response |-> response,
                   result |-> ListCall(endpoint, response)]
    /\ UNCHANGED <<campaigns, flows, offers, nextFlowPk, nextOfferPk, remote, call>>

\* _make_request('POST', '/streams', ...) with and without allow_500.
MakeRequest ==
    /\ \E resp \in CreateResponses, allow_500 \in BOOLEAN, name \in FlowNames :
          LET data == StreamData(1, name, "redirect", PayloadVariant(0, <<"g">>),
                                 NoFilter)
              g == make_request(remote, data, resp, allow_500)
          IN  /\ ~g.remote.overflow
              /\ remote' = g.remote
              /\ last' = [op |-> "make_request", response |-> resp,
                          allow_500 |-> allow_500, result |-> Returned(g)]
    /\ UNCHANGED <<campaigns, flows, offers, nextFlowPk, nextOfferPk, call>>

NextGateway == GetList \/ MakeRequest

SpecGateway == Init /\ [][NextGateway]_vars

\* ------------------------------------------------------------- shares
\* calculate_share_percent divides and multiplies Python floats, which are
\* IEEE 754 doubles.  A positive double is [bits, z]: the 53 bits of its
\* significand, the first of them 1, and the place of the first bit; its
\* value is the sum of bits[i] * 2^-(z + i - 1).
Precision == 53

Double(bits, z) == [bits |-> bits, z |-> z]

\* bits + 1 where some bit is 0: the last 0 becomes 1, the 1s after it 0.
Incr(bits) ==
    LET k == CHOOSE i \in 1..Len(bits) :
                 bits[i] = 0 /\ \A j \in (i + 1)..Len(bits) : bits[j] = 1
    IN  [i \in 1..Len(bits) |-> IF i < k THEN bits[i] ELSE IF i = k THEN 1 ELSE 0]

\* Round to nearest, ties to even: rnd is the first bit dropped, sticky
\* whether a later one is set.
Nearest(bits, z, rnd, sticky) ==
    IF rnd = 1 /\ (sticky \/ bits[Len(bits)] = 1)
    THEN IF \A i \in 1..Len(bits) : bits[i] = 1
         THEN Double(<<1>> \o [i \in 1..(Len(bits) - 1) |-> 0], z - 1)
         ELSE Double(Incr(bits), z)
    ELSE Double(bits, z)

\* 2^n modulo T.
RECURSIVE Pow2Mod(_, _)
Pow2Mod(n, T) ==
    IF n = 0 THEN 1 % T
    ELSE LET h == Pow2Mod(n \div 2, T)
         IN  (h * h * (IF n % 2 = 1 THEN 2 ELSE 1)) % T

\* The long division of r by T for r < T: what is left after n bits of the
\* quotient, and the next n bits.
RemainderAfter(r, T, n) == (r * Pow2Mod(n, T)) % T

QuotientBits(r, T, n) == [i \in 1..n |-> (2 * RemainderAfter(r, T, i - 1)) \div T]

RECURSIVE LeadingZeros(_, _)
LeadingZeros(r, T) == IF r >= T THEN 0 ELSE 1 + LeadingZeros(2 * r, T)

RECURSIVE Scaled(_, _)
Scaled(r, T) == IF r >= T THEN r ELSE Scaled(2 * r, T)

\* self.weight / total_weight for 1 <= W <= T.
Divide(W, T) ==
    LET r == Scaled(W, T) - T
        q == QuotientBits(r, T, Precision)
    IN  Nearest(<<1>> \o SubSeq(q, 1, Precision - 1), LeadingZeros(W, T),
                q[Precision], RemainderAfter(r, T, Precision) # 0)

RECURSIVE Binary(_)
Binary(n) == IF n = 0 THEN <<>> ELSE Binary(n \div 2) \o <<n % 2>>

RECURSIVE Number(_)
Number(bits) ==
    IF bits = <<>> THEN 0
    ELSE 2 * Number(SubSeq(bits, 1, Len(bits) - 1)) + bits[Len(bits)]

\* The last n bits of v.
LowBits(v, n) == [i \in 1..n |-> (v \div 2^(n - i)) % 2]

\* bits * k + c: the carry out of the first bit and the bits below it,
\* multiplied ten bits at a time from the last.
Limb == 10

RECURSIVE Product(_, _, _)
Product(bits, k, c) ==
    IF Len(bits) <= Limb
    THEN LET v == Number(bits) * k + c
         IN  [carry |-> v \div 2^Len(bits), bits |-> LowBits(v, Len(bits))]
    ELSE LET low == Product(SubSeq(bits, Len(bits) - Limb + 1, Len(bits)), k, c)
             high == Product(SubSeq(bits, 1, Len(bits) - Limb), k, low.carry)
         IN  [carry |-> high.carry, bits |-> high.bits \o low.bits]

\* The bits of bits * k + c, all of them.
Times(bits, k, c) == LET p == Product(bits, k, c) IN Binary(p.carry) \o p.bits

\* d * k as a double.
Multiply(d, k) ==
    LET E == Times(d.bits, k, 0)
        g == Len(E) - Precision
    IN  Nearest(SubSeq(E, 1, Precision), d.z - g,
                IF g > 0 THEN E[Precision + 1] ELSE 0,
                \E i \in (Precision + 2)..Len(E) : E[i] = 1)

\* round(d, 1), in tenths: float.__round__ rounds the exact value of the
\* double correctly, ties to even.
RoundTenths(d) ==
    LET F == Times(d.bits, 10, 0)
        L == d.z + Precision - 1
        n == Len(F)
        whole == IF n > L THEN Number(SubSeq(F, 1, n - L)) ELSE 0
        frac == IF n > L THEN SubSeq(F, n - L + 1, n) ELSE [i \in 1..(L - n) |-> 0] \o F
    IN  IF frac[1] = 1 /\ ((\E i \in 2..Len(frac) : frac[i] = 1) \/ whole % 2 = 1)
        THEN whole + 1 ELSE whole

RECURSIVE TotalWeight(_)
TotalWeight(S) ==
    IF S = {} THEN 0
    ELSE LET r == CHOOSE x \in S : TRUE IN r.weight + TotalWeight(S \ {r})

\* CampaignOffer.calculate_share_percent, in tenths of a percent.
calculate_share_percent(S, self) ==
    IF self.status = "removed" THEN 0
    ELSE LET active_offers == {r \in S : /\ r.campaign = self.campaign
                                         /\ r.flow = self.flow
                                         /\ r.status = "active"}
             total_weight == TotalWeight(active_offers)
         IN  IF total_weight = 0 THEN 0
             ELSE IF self.weight = 0 THEN 0
             ELSE RoundTenths(Multiply(Divide(self.weight, total_weight), 100))

\* The weights of the rows a share is computed over.
ShareWeights == {0, 1, 2, 3, 15, 23, 57, 65}

\* A campaign with two offers, bound to the flow or to none.
InitShare ==
    /\ campaigns = {Campaign(1, 1, <<"c">>, <<"A", "U">>, 0)}
    /\ flows = {Flow(1, 1, 1, <<"f">>, "offer_redirect", NoText, NoText, FlowStamp)}
    /\ \E w1 \in ShareWeights, w2 \in ShareWeights,
          f1 \in {Null, 1}, f2 \in {Null, 1},
          s1 \in {"active", "removed"}, s2 \in {"active", "removed"} :
          offers = {[CampaignOffer(1, 1, f1, 1, OfferNameOf(1), w1, Older)
                        EXCEPT !.status = s1],
                    [CampaignOffer(2, 1, f2, 2, OfferNameOf(2), w2, Older)
                        EXCEPT !.status = s2]}
    /\ nextFlowPk = 2
    /\ nextOfferPk = 3
    /\ last = NoOp
    /\ remote = [campaigns |-> {[id |-> 1, name |-> <<"c">>, geo |-> <<"A", "U">>]},
                 streams |-> {}, nextCampaignId |-> 2, nextStreamId |-> 1,
                 returned |-> {1}, overflow |-> FALSE]
    /\ call = Idle

\* offer.calculate_share_percent() on a row of the store.
CalculateShare ==
    \E self \in offers :
        /\ last' = [op |-> "share", offer |-> self,
                    total |-> TotalWeight({r \in offers : /\ r.campaign = self.campaign
                                                          /\ r.flow = self.flow
                                                          /\ r.status = "active"}),
                    share |-> calculate_share_percent(offers, self)]
        /\ UNCHANGED <<campaigns, flows, offers, nextFlowPk, nextOfferPk, remote, call>>

NextShare == CalculateShare

SpecShare == InitShare /\ [][NextShare]_vars

\* ------------------------------------------------------------- catalogues
\* An entry of the schema or action catalogue: an object with what it holds
\* under 'value', 'key' and 'type' (NoKey: no such key), or something that
\* is no object, of which str() is taken.
NoKey == "(no key)"

CatalogEntry(value, key, type) ==
    [isdict |-> TRUE, value |-> value, key |-> key, type |-> type, text |-> ""]

NotAnObject == [isdict |-> FALSE, value |-> NoKey, key |-> NoKey, type |-> NoKey, text |-> "5"]

\* dict.get(key, default)
GetOr(v, default) == IF v = NoKey THEN default ELSE v

\* What the gateway hands over as a catalogue: a list of entries, or the
\* value an object held under the catalogue's key: null, a number, a string
\* (items: its characters) or an object (items: its keys).
Python_None == Json("null", <<>>)

SchemaEntries ==
    {CatalogEntry(v, k, NoKey) : v \in {NoKey, "landings", "redirect", "x"},
                                  k \in {NoKey, "redirect"}}
    \cup {NotAnObject}

ActionEntries ==
    {CatalogEntry(NoKey, k, t) : k \in {NoKey, "http", "meta", "y"},
                                  t \in {NoKey, "redirect"}}
    \cup {NotAnObject}

OddValues ==
    {Python_None, Json("int", <<>>), Json("str", <<>>), Json("str", <<"a">>),
     Json("dict", <<>>), Json("dict", <<"a">>)}

Lists(entries) ==
    {Json("list", <<>>)}
    \cup {Json("list", <<e>>) : e \in entries}
    \cup {Json("list", <<NotAnObject, e>>) : e \in entries}

\* for x in catalogue: None and numbers cannot be iterated.
Iterable(cat) == cat.t \in {"list", "str", "dict"}

\* _get_schema_for_offers on the catalogue _get_schemas returned.
schema_for_offers(schemas) ==
    IF ~Iterable(schemas) THEN Raises
    ELSE IF schemas.t = "list"
            /\ \E k \in 1..Len(schemas.items) :
                  schemas.items[k].isdict /\ GetOr(schemas.items[k].value, "") = "landings"
    THEN Returns("landings")
    ELSE IF schemas.items # <<>>
    THEN IF schemas.t = "dict" THEN Raises
         ELSE IF schemas.t = "str" THEN Returns(schemas.items[1])
         ELSE LET first == schemas.items[1]
              IN  Returns(IF first.isdict THEN GetOr(first.value, "landings") ELSE first.text)
    ELSE Returns("landings")

\* _get_schema_for_redirect
RECURSIVE FirstRedirect(_, _)
FirstRedirect(items, k) ==
    IF k > Len(items) THEN NoKey
    ELSE LET schema_value == GetOr(items[k].value, "")
             schema_key == GetOr(items[k].key, "")
         IN  IF items[k].isdict /\ (schema_value = "redirect" \/ schema_key = "redirect")
             THEN (IF schema_value # "" THEN schema_value ELSE schema_key)
             ELSE FirstRedirect(items, k + 1)

schema_for_redirect(schemas) ==
    IF ~Iterable(schemas) THEN Raises
    ELSE IF schemas.t = "list" /\ FirstRedirect(schemas.items, 1) # NoKey
    THEN Returns(FirstRedirect(schemas.items, 1))
    ELSE IF schemas.items # <<>>
    THEN IF schemas.t = "dict" THEN Raises
         ELSE IF schemas.t = "str" THEN Returns(schemas.items[1])
         ELSE LET first == schemas.items[1]
              IN  Returns(IF first.isdict
                          THEN GetOr(first.value, GetOr(first.key, "redirect"))
                          ELSE first.text)
    ELSE Returns("redirect")

\* _get_action_type_for_redirect
RECURSIVE FirstKnownAction(_, _)
FirstKnownAction(items, k) ==
    IF k > Len(items) THEN "http"
    ELSE IF items[k].isdict /\ GetOr(items[k].key, "") \in {"http", "meta", "js"}
    THEN items[k].key
    ELSE FirstKnownAction(items, k + 1)

action_type_for_redirect(actions) ==
    IF ~Iterable(actions) THEN Raises
    ELSE IF actions.t # "list" THEN Returns("http")
    ELSE IF \E k \in 1..Len(actions.items) :
               /\ actions.items[k].isdict
               /\ GetOr(actions.items[k].key, "") = "http"
               /\ GetOr(actions.items[k].type, "") = "redirect"
    THEN Returns("http")
    ELSE Returns(FirstKnownAction(actions.items, 1))

\* _get_action_type_for_offers
action_type_for_offers(actions) == action_type_for_redirect(actions)

\* The caches of one engine instance and the number of catalogue requests it
\* has sent; a cache that was never filled holds None.
MaxFetches == 2

Engine(schemas_cache, actions_cache, schema_fetches, action_fetches) ==
    [schemas_cache |-> schemas_cache, actions_cache |-> actions_cache,
     schema_fetches |-> schema_fetches, action_fetches |-> action_fetches]

\* _get_schemas and _get_actions: the cache after the call; answer is what
\* the gateway call does when it is made.
FillCache(cache, answer) ==
    IF cache # Python_None THEN cache
    ELSE IF answer.raised THEN Json("list", <<>>) ELSE answer.value

Fetches(cache, n) == IF cache # Python_None THEN n ELSE n + 1

Resolvers ==
    {"schema_for_offers", "schema_for_redirect",
     "action_type_for_redirect", "action_type_for_offers"}

Fallback(resolver) ==
    CASE resolver = "schema_for_offers" -> "landings"
      [] resolver = "schema_for_redirect" -> "redirect"
      [] OTHER -> "http"

InitCatalog ==
    /\ campaigns = {Campaign(1, 1, <<"c">>, <<"A", "U">>, 0)}
    /\ flows = {}
    /\ offers = {}
    /\ nextFlowPk = 1
    /\ nextOfferPk = 1
    /\ last = NoOp
    /\ remote = [campaigns |-> {[id |-> 1, name |-> <<"c">>, geo |-> <<"A", "U">>]},
                 streams |-> {}, nextCampaignId |-> 2, nextStreamId |-> 1,
                 returned |-> {1}, overflow |-> FALSE]
    /\ call = Engine(Python_None, Python_None, 0, 0)

\* A resolution of a schema: `call` holds the engine instance.
ResolveSchema ==
    /\ call.schema_fetches < MaxFetches
    /\ \E resolver \in {"schema_for_offers", "schema_for_redirect"},
          answer \in {Raises} \cup {Returns(v) : v \in Lists(SchemaEntries) \cup OddValues} :
          LET schemas == FillCache(call.schemas_cache, answer)
              asked == call.schemas_cache = Python_None
          IN  /\ call' = [call EXCEPT !.schemas_cache = schemas,
                                      !.schema_fetches = Fetches(call.schemas_cache, @)]
              /\ last' = [op |-> resolver, asked |-> asked,
                          failed |-> asked /\ answer.raised,
                          catalog |-> schemas,
                          result |-> IF resolver = "schema_for_offers"
                                     THEN schema_for_offers(schemas)
                                     ELSE schema_for_redirect(schemas)]
    /\ UNCHANGED <<campaigns, flows, offers, nextFlowPk, nextOfferPk, remote>>

\* A resolution of an action type.
ResolveAction ==
    /\ call.action_fetches < MaxFetches
    /\ \E resolver \in {"action_type_for_redirect", "action_type_for_offers"},
          answer \in {Raises} \cup {Returns(v) : v \in Lists(ActionEntries) \cup OddValues} :
          LET actions == FillCache(call.actions_cache, answer)
              asked == call.actions_cache = Python_None
          IN  /\ call' = [call EXCEPT !.actions_cache = actions,
                                      !.action_fetches = Fetches(call.actions_cache, @)]
              /\ last' = [op |-> resolver, asked |-> asked,
                          failed |-> asked /\ answer.raised,
                          catalog |-> actions,
                          result |-> IF resolver = "action_type_for_redirect"
                                     THEN action_type_for_redirect(actions)
                                     ELSE action_type_for_offers(actions)]
    /\ UNCHANGED <<campaigns, flows, offers, nextFlowPk, nextOfferPk, remote>>

NextCatalog == ResolveSchema \/ ResolveAction

SpecCatalog == InitCatalog /\ [][NextCatalog]_vars

\* ------------------------------------------------------------- a sync beside a removal
\* fetch_streams_from_keitaro runs without a transaction and without locks:
\* each query and each save is a statement of its own (autocommit), and a
\* request of another user may run between two of them.  The sync is split
\* where it reads before it writes: the filter for a removed row (services.py
\* 669-679) and the get_or_create with the save that follows (681-697).
EntryRemoved(db, c, e) ==
    \E r \in Offer(db, c, EntryOfferId(e)) : r.status = "removed"

UpsertEntry(db, c, f, e, named) ==
    LET offer_id == EntryOfferId(e)
        existing == Offer(db, c, offer_id)
    IN  IF existing = {}
        THEN CreateOffer(db, c, f, offer_id, LookupName(named, offer_id), EntryWeight(e))
        ELSE SaveOffer(db, [FirstOffer(existing) EXCEPT
                               !.flow = f, !.weight = EntryWeight(e),
                               !.status = "active"])

\* The locals of a running sync: the step that runs next, the flow of the
\* stream, its offer entries, the index of the entry at hand and
\* keitaro_offer_ids.
SyncFrame(pc, c, f, entries, i, seen) ==
    [pc |-> pc, op |-> "fetch", campaign |-> c, flow |-> f, entries |-> entries,
     i |-> i, seen |-> seen]

NextEntry(fr) ==
    IF fr.i = Len(fr.entries) THEN [fr EXCEPT !.pc = "sweep"]
    ELSE [fr EXCEPT !.pc = "check", !.i = @ + 1]

InitSyncRace ==
    /\ campaigns = {Campaign(1, 1, <<"c">>, <<"A", "U">>, 0)}
    /\ flows = {Flow(1, 1, 1, StreamName(1), "offer_redirect", NoText, NoText, FlowStamp)}
    /\ \E w \in Weights, other \in {{}, {CampaignOffer(2, 1, 1, 2, OfferNameOf(2), 1, Older)}} :
          offers = {CampaignOffer(1, 1, 1, 1, OfferNameOf(1), w, Older)} \cup other
    /\ nextFlowPk = 2
    /\ nextOfferPk = 3
    /\ last = NoOp
    /\ remote = [campaigns |-> {[id |-> 1, name |-> <<"c">>, geo |-> <<"A", "U">>]},
                 streams |-> {}, nextCampaignId |-> 2, nextStreamId |-> 1,
                 returned |-> {1}, overflow |-> FALSE]
    /\ call = Idle

\* The sync up to the first entry of the stream: the listing and the flow.
BeginSync ==
    /\ call.pc = "idle"
    /\ \E S \in SUBSET OfferIds \ {{}}, w \in Weights :
          LET stream == PlainStream(1, S, w)
              db == SyncFlow(Store, 1, stream)
              flow == FirstFlow({r \in db.flows : r.campaign = 1 /\ r.keitaro_id = stream.id})
          IN  /\ CommitRows(db)
              /\ call' = SyncFrame("check", 1, flow.pk, OffersOf(stream), 1, {})
    /\ UNCHANGED <<campaigns, remote, last>>

\* The filter for a row the user removed.
CheckEntry ==
    /\ call.pc = "check"
    /\ LET e == call.entries[call.i]
           fr == [call EXCEPT !.seen = @ \cup {EntryOfferId(e)}]
       IN  call' = IF EntryRemoved(Store, call.campaign, e) THEN NextEntry(fr)
                   ELSE [fr EXCEPT !.pc = "upsert"]
    /\ UNCHANGED <<campaigns, flows, offers, nextFlowPk, nextOfferPk, remote, last>>

\* get_or_create and the save of the row it found.
UpsertStep ==
    /\ call.pc = "upsert"
    /\ CommitRows(UpsertEntry(Store, call.campaign, call.flow, call.entries[call.i], OfferIds))
    /\ call' = NextEntry(call)
    /\ UNCHANGED <<campaigns, remote, last>>

\* The closing sweep; the sync has completed after it.
SweepStep ==
    /\ call.pc = "sweep"
    /\ CommitRows(SweepAbsent([Store EXCEPT !.seen = call.seen], call.campaign))
    /\ call' = [call EXCEPT !.pc = "done"]
    /\ UNCHANGED <<campaigns, remote, last>>

NextSyncRace ==
    \/ BeginSync
    \/ CheckEntry
    \/ UpsertStep
    \/ SweepStep
    \/ RemoveOffer

SpecSyncRace == InitSyncRace /\ [][NextSyncRace]_vars

\* ------------------------------------------------------------- a pin beside a recalculation
\* remove_offer_from_campaign beside the request of another user, split where
\* recalculate_weights has read the unpinned offers of the flow (services.py
\* 559-569: the queryset is evaluated when the loop starts) and saves them
\* one by one (570-571): offer.save() writes every field of the row as it
\* was read.
RECURSIVE RowsInOrder(_)
RowsInOrder(S) ==
    IF S = {} THEN <<>>
    ELSE LET r == FirstOffer(S) IN <<r>> \o RowsInOrder(S \ {r})

\* The locals of a running removal: the flow and the rows the loop of
\* recalculate_weights still has to save.
RecalcFrame(pc, c, f, rows) ==
    [pc |-> pc, op |-> "remove", campaign |-> c, flow |-> f, rows |-> rows]

InitPinRace ==
    /\ campaigns = {Campaign(1, 1, <<"c">>, <<"A", "U">>, 0)}
    /\ flows = {Flow(1, 1, 1, StreamName(1), "offer_redirect", NoText, NoText, FlowStamp)}
    /\ \E w1 \in Weights, w2 \in Weights :
          offers = {CampaignOffer(1, 1, 1, 1, OfferNameOf(1), w1, Older),
                    CampaignOffer(2, 1, 1, 2, OfferNameOf(2), w2, Older)}
    /\ nextFlowPk = 2
    /\ nextOfferPk = 3
    /\ last = NoOp
    /\ remote = [campaigns |-> {[id |-> 1, name |-> <<"c">>, geo |-> <<"A", "U">>]},
                 streams |-> {}, nextCampaignId |-> 2, nextStreamId |-> 1,
                 returned |-> {1}, overflow |-> FALSE]
    /\ call = Idle

\* remove_offer_from_campaign up to the loop of recalculate_weights.
BeginRemove ==
    /\ call.pc \in {"idle", "done"}
    /\ \E offer \in offers :
          LET db1 == SaveOffer(Store, [offer EXCEPT !.status = "removed"])
              db2 == IF offer.flow = Null THEN db1
                     ELSE SaveFlow(db1, [FlowByPk(db1, offer.flow) EXCEPT !.has_changes = TRUE])
              unpinned_offers == {r \in db2.offers : /\ r.flow = offer.flow
                                                     /\ offer.flow # Null
                                                     /\ r.status = "active"
                                                     /\ ~r.weight_pinned}
          IN  /\ CommitRows(db2)
              /\ call' = RecalcFrame(IF unpinned_offers = {} THEN "done" ELSE "save",
                                     offer.campaign, offer.flow,
                                     RowsInOrder(unpinned_offers))
    /\ UNCHANGED <<campaigns, remote, last>>

\* One turn of the loop: offer.weight = base_weight; offer.save()
SaveNextWeight ==
    /\ call.pc = "save"
    /\ CommitRows(SaveOffer(Store, [Head(call.rows) EXCEPT !.weight = 1]))
    /\ call' = [call EXCEPT !.rows = Tail(@),
                            !.pc = IF Tail(call.rows) = <<>> THEN "done" ELSE "save"]
    /\ UNCHANGED <<campaigns, remote, last>>

NextPinRace ==
    \/ BeginRemove
    \/ SaveNextWeight
    \/ Pin

SpecPinRace == InitPinRace /\ [][NextPinRace]_vars

\* ------------------------------------------------------------- claims
RowsOf(S, c, oid) == {r \in S : r.campaign = c /\ r.offer_id = oid}

\* C1: a drift sync leaves every CampaignOffer that is 'removed' as it is:
\* same row, still removed, same weight and same flow binding, also when the
\* listing names its offer id.
C1_SyncKeepsRemoved ==
    [][last'.op = "fetch" =>
          \A r \in offers : r.status = "removed" =>
              \E q \in offers' : /\ q.pk = r.pk
                                 /\ q.status = "removed"
                                 /\ q.weight = r.weight
                                 /\ q.flow = r.flow]_vars

\* A sync has run whose listing names an offer that was removed before it (the
\* row is bound to a flow and was not saved by this sync: the sweep did not
\* touch it).
C1_Witness ==
    /\ last.op = "fetch" /\ last.ok /\ last.streams > 0
    /\ \E r \in offers : /\ r.status = "removed" /\ r.offer_id \in last.listed
                         /\ r.flow # Null /\ r.updated_at = Older

\* C2: when create_flow_for_campaign has ended and its last create call
\* reported a 500 (as the None sentinel or as an error) while the tracker's
\* listing of the campaign holds a stream whose name holds the flow name, the
\* call has not raised: it has returned a Flow row that carries the remote id
\* of a listed stream (the least the claim asks for).
C2_AmbiguousCreateImportsListedStream ==
    (/\ call.op = "create_flow" /\ call.pc = "done" /\ call.last500
     /\ \E s \in remote.streams :
            /\ s.campaign_id = CampaignByPk(call.campaign).keitaro_id
            /\ NameIn(call.name, s.name))
    => /\ call.result = "flow"
       /\ \E s \in remote.streams : s.id = call.flow
       /\ \E f \in flows : f.keitaro_id = call.flow

\* C3: within one create_flow_for_campaign call no POST /streams is sent
\* after a POST /streams that was answered 500, and the call leaves at most
\* one stream stored on the tracker.
C3_NoCreateAfter500 ==
    call.op = "create_flow" => call.resent = 0 /\ call.stored <= 1

\* C4: every Campaign row has a keitaro_id that is not null and is the id
\* the tracker returned (in the creation response or in a listing) for the
\* campaign of that name, whatever the tracker answered to the creation and
\* listing requests.
C4_CampaignsCarryRemoteId ==
    \A c \in campaigns :
        /\ c.keitaro_id # Null
        /\ c.keitaro_id \in remote.returned
        /\ \E rc \in remote.campaigns :
               rc.id = c.keitaro_id /\ rc.name = c.name /\ rc.geo = c.geo

\* A creation call has returned its campaign, whose row carries the id of
\* the response, beside a row that the sync created from a listing (offer_id
\* 0).
C4_Witness ==
    /\ call.op = "create_campaign" /\ call.result = "campaign"
    /\ \E c \in campaigns : c.pk = call.campaign /\ c.keitaro_id # Null
    /\ \E c \in campaigns : c.pk # call.campaign /\ c.offer_id = 0

\* C5: after add_offer_to_campaign(campaign, offer_id, weight) the pair has
\* exactly one row, active, with the given weight and no flow, and it is the
\* row the pair had before when it had one.
C5_AddIdempotent ==
    [][last'.op = "add" /\ last'.ok =>
          LET rows == RowsOf(offers', last'.campaign, last'.offer_id) IN
          /\ Cardinality(rows) = 1
          /\ \A r \in rows :
                /\ r.status = "active" /\ r.weight = last'.weight /\ r.flow = Null
                /\ \A q \in RowsOf(offers, last'.campaign, last'.offer_id) : q.pk = r.pk
          /\ Cardinality(offers') =
                Cardinality(offers)
                + (IF RowsOf(offers, last'.campaign, last'.offer_id) = {} THEN 1 ELSE 0)]_vars

\* An add has run on a pair whose row was 'removed' and bound to a flow.
C5_Witness ==
    /\ last.op = "add" /\ last.ok
    /\ last.pre.status = "removed" /\ last.flow # Null
    /\ Cardinality(RowsOf(offers, last.campaign, last.offer_id)) = 1

\* C6: when remove_offer_from_campaign returns for an offer bound to flow F,
\* the offer is 'removed', F.has_changes is true and every active unpinned
\* offer of F has weight 1.
C6_RemoveMarksAndRecalculates ==
    (last.op = "remove" /\ last.ok /\ last.flow # Null) =>
        /\ \A r \in RowsOf(offers, last.campaign, last.offer_id) :
              r.status = "removed" /\ r.flow = last.flow
        /\ \A fl \in flows : fl.pk = last.flow => fl.has_changes
        /\ \A r \in offers :
              (r.flow = last.flow /\ r.status = "active" /\ ~r.weight_pinned) => r.weight = 1

\* A remove has run on a flow-bound active offer whose flow keeps an active
\* unpinned offer (saved by the recalculation) and had no changes before.
C6_Witness ==
    /\ last.op = "remove" /\ last.ok /\ last.flow # Null
    /\ last.pre.status = "active" /\ ~last.pre.hc
    /\ \E r \in offers : /\ r.flow = last.flow /\ r.status = "active"
                         /\ ~r.weight_pinned /\ r.updated_at = Newer

\* C7: from a flow F without changes, remove_offer_from_campaign of an offer
\* bound to F followed by cancel_flow_changes(F) leaves the offer active and
\* deletes no CampaignOffer row.
C7_CancelUndoesRemove ==
    [][(/\ last.op = "remove" /\ last.ok /\ last.flow # Null /\ ~last.pre.hc
        /\ last'.op = "cancel" /\ last'.flow = last.flow) =>
          /\ \E r \in RowsOf(offers', last.campaign, last.offer_id) : r.status = "active"
          /\ \A r \in offers : \E q \in offers' : q.pk = r.pk]_vars

\* C8: cancel_flow_changes on a flow stamped T0 deletes every active offer of
\* the flow stamped later than T0, makes every removed offer of the flow
\* stamped later than T0 active without deleting it, keeps the rows of the
\* flow stamped at or before T0 with their status, clears has_changes, and
\* leaves every active unpinned offer of the flow with weight 1.
C8_CancelByTimestamp ==
    [][last'.op = "cancel" =>
          \A fl \in flows : fl.pk = last'.flow =>
              /\ \A r \in offers : r.flow = fl.pk =>
                    /\ (r.status = "active" /\ r.updated_at > fl.updated_at)
                          => ~\E q \in offers' : q.pk = r.pk
                    /\ (r.status = "removed" /\ r.updated_at > fl.updated_at)
                          => \E q \in offers' : q.pk = r.pk /\ q.status = "active"
                    /\ (r.updated_at <= fl.updated_at)
                          => \E q \in offers' : q.pk = r.pk /\ q.status = r.status
              /\ \A g \in flows' : g.pk = fl.pk => ~g.has_changes
              /\ \A q \in offers' :
                    (q.flow = fl.pk /\ q.status = "active" /\ ~q.weight_pinned)
                        => q.weight = 1]_vars

\* A cancel has run on a flow that had a later-stamped active offer and a
\* later-stamped removed offer (scenario E).
C8_Witness ==
    /\ last.op = "cancel" /\ last.ok
    /\ last.pre.added >= 1 /\ last.pre.removed >= 1
    /\ \E r \in offers : r.flow = last.flow /\ r.status = "active"

\* C9 as stated: after any drift sync that returns, every active flow-bound
\* offer of the campaign is named by the listing and every other offer that
\* was active and flow-bound is 'removed', whatever the listing (also an
\* empty one).
C9_SyncSweepsAbsent ==
    [][last'.op = "fetch" /\ last'.ok =>
          /\ \A q \in offers' :
                (q.campaign = last'.campaign /\ q.status = "active" /\ q.flow # Null)
                    => q.offer_id \in last'.listed
          /\ \A r \in offers :
                (r.campaign = last'.campaign /\ r.status = "active" /\ r.flow # Null)
                    => \E q \in offers' :
                          /\ q.pk = r.pk
                          /\ (q.status = "removed" \/ q.offer_id \in last'.listed)]_vars

\* C9 amended: the same for every listing that holds at least one stream; on
\* an empty listing the sync returns without changing a row.
C9_SyncSweepsAbsentOfListedStreams ==
    [][last'.op = "fetch" /\ last'.ok =>
          IF last'.streams = 0
          THEN offers' = offers /\ flows' = flows
          ELSE /\ \A q \in offers' :
                     (q.campaign = last'.campaign /\ q.status = "active" /\ q.flow # Null)
                         => q.offer_id \in last'.listed
               /\ \A r \in offers :
                     (r.campaign = last'.campaign /\ r.status = "active" /\ r.flow # Null)
                         => \E q \in offers' :
                               /\ q.pk = r.pk
                               /\ (q.status = "removed" \/ q.offer_id \in last'.listed)]_vars

\* A sync of a listing with streams has marked an offer the listing does not
\* name as removed (the sweep saved it after its flow).
C9_Witness ==
    /\ last.op = "fetch" /\ last.ok /\ last.streams > 0
    /\ \E r \in offers : /\ r.status = "removed" /\ r.flow # Null
                         /\ r.offer_id \notin last.listed /\ r.updated_at = Newer

\* The active offers of a flow with their weights.
ActiveOffers(S, f) == {<<r.pk, r.weight>> : r \in {q \in S : q.flow = f /\ q.status = "active"}}

LocalEdits == {"add", "remove", "restore", "pin", "unpin"}

\* C10: whenever a local operation changes the set of active offers bound to
\* a flow, or the weight of one of them, the flow has has_changes set
\* afterwards; and has_changes is cleared only by a push that succeeded or by
\* a cancel.
C10_HasChangesTracksEdits ==
    [][/\ last'.op \in LocalEdits =>
             \A fl \in flows' :
                 ActiveOffers(offers', fl.pk) # ActiveOffers(offers, fl.pk) => fl.has_changes
       /\ \A fl \in flows : \A g \in flows' :
             (g.pk = fl.pk /\ fl.has_changes /\ ~g.has_changes)
                 => (last'.op \in {"push", "cancel"} /\ last'.ok)]_vars

\* The (offer_id, weight) pairs of the active offers bound to a flow.
ActivePairs(S, f) ==
    {<<r.offer_id, r.weight>> : r \in {q \in S : q.flow = f /\ q.status = "active"}}

\* C11: a push of a flow that lacks a remote id, or whose campaign lacks
\* one, raises without sending a request and without changing a row; any
\* other push sends one update, to the flow's remote id, that carries exactly
\* the (offer_id, weight) pairs of the active offers bound to the flow, each
\* once, and when it succeeds the flow is published and has no changes.
C11_PushSendsActiveOffers ==
    [][last'.op = "push" =>
          \A fl \in flows : fl.pk = last'.flow =>
              IF CampaignByPk(fl.campaign).keitaro_id = Null \/ fl.keitaro_id = Null
              THEN /\ ~last'.ok /\ ~last'.put.sent
                   /\ flows' = flows /\ offers' = offers
              ELSE /\ last'.put.sent /\ last'.put.flow_id = fl.keitaro_id
                   /\ {<<last'.put.offers[k].id, last'.put.offers[k].weight>> :
                          k \in 1..Len(last'.put.offers)} = ActivePairs(offers, fl.pk)
                   /\ Len(last'.put.offers) = Cardinality(ActivePairs(offers, fl.pk))
                   /\ last'.ok =>
                         \A g \in flows' : g.pk = fl.pk => g.is_published /\ ~g.has_changes]_vars

\* A push has succeeded that sent one offer, for a flow that holds an active
\* offer beside a removed one.
C11_Witness ==
    /\ last.op = "push" /\ last.ok /\ last.put.sent
    /\ Len(last.put.offers) = 1
    /\ \E r \in offers : r.flow = last.flow /\ r.status = "removed"
    /\ \E r \in offers : r.flow = last.flow /\ r.status = "active"
    /\ \E fl \in flows : fl.pk = last.flow /\ fl.is_published /\ ~fl.has_changes

C14_WeightsPositive == \A r \in offers : r.weight >= 1

\* Whether the search of the campaign's listing that follows a country_filter
\* loop without an id finds no stream (an offer_redirect call makes no such
\* search: it raises as soon as its loop ends without an id).
NoListedMatch ==
    call.flow_type = "country_filter" =>
        find_existing_flow(Store, remote, call.campaign, call.name, "country_filter",
                           <<>>, call.country, call.redirect_url, TRUE, OfferIds).flow
            = Null

\* C15: no iteration of the request loop of create_flow_for_campaign writes
\* to the store, and when the loop has ended without an id (every create
\* attempt failed or stayed ambiguous) and the listing holds no matching
\* stream, the step that follows raises and leaves the Campaign, Flow and
\* CampaignOffer rows as they were.
C15_FailedCreateLeavesStore ==
    [][/\ (call.op = "create_flow" /\ call.pc = "loop")
            => UNCHANGED <<campaigns, flows, offers>>
       /\ (/\ call.op = "create_flow" /\ call.pc = "finish"
           /\ ~HasId(call.flow_data) /\ NoListedMatch)
            => /\ call'.pc = "done" /\ call'.result = "error"
               /\ UNCHANGED <<campaigns, flows, offers>>]_vars

\* A country_filter call has raised after its last request variant, which
\* the tracker answered with a 500.
C15_Witness ==
    /\ call.op = "create_flow" /\ call.pc = "done" /\ call.result = "error"
    /\ call.flow_type = "country_filter"
    /\ call.i = FilterVariants * PayloadVariants - 1
    /\ call.last_error /\ call.last500

C17_OfferFlowHasItsOffers ==
    [][(/\ call.op = "create_flow" /\ call.flow_type = "offer_redirect"
        /\ call.pc = "finish")
       => /\ (HasId(call.flow_data)
               /\ ~\E f \in flows : f.keitaro_id = call.flow_data.id)
              => call'.result = "flow"
          /\ call'.result = "flow"
              => \E f \in flows' :
                    /\ f.keitaro_id = call'.flow /\ f.campaign = call.campaign
                    /\ f.flow_type = "offer_redirect"
                    /\ \A oid \in SeqToSet(call.offer_id_list) :
                          \E r \in offers' :
                             /\ RowsOf(offers', call.campaign, oid) = {r}
                             /\ IF RowsOf(offers, call.campaign, oid) # {}
                                THEN r \in offers
                                ELSE /\ r.flow = f.pk /\ r.weight = 1
                                     /\ r.status = "active"
                                     /\ r.offer_name \in {OfferNameOf(oid), NoName}]_vars

\* An offer_redirect call for offers 1 and 2 has returned a Flow it imported
\* after a 500, offer 1 keeping the row of an earlier add and offer 2 having
\* a new row without a name.
C17_Witness ==
    /\ call.op = "create_flow" /\ call.flow_type = "offer_redirect"
    /\ call.pc = "done" /\ call.result = "flow" /\ call.last500
    /\ call.offer_id_list = <<1, 2>>
    /\ \E f \in flows, r1 \in offers, r2 \in offers :
          /\ f.keitaro_id = call.flow
          /\ r1.offer_id = 1 /\ r1.flow = Null /\ r1.weight = 2
          /\ r2.offer_id = 2 /\ r2.flow = f.pk /\ r2.offer_name = NoName

\* C18: sync_active_campaigns_from_api always returns: when the listing
\* request failed it returns an empty list and leaves the Campaign rows as
\* they were, and when it was answered every row it returns carries a remote
\* id that the listing named.
C18_SyncReturnsListedOrNothing ==
    [][last'.op = "sync_campaigns"
       => /\ last'.ok
          /\ ~last'.answered => last'.active = <<>> /\ campaigns' = campaigns
          /\ last'.answered
               => \A k \in 1..Len(last'.active) :
                     \E r \in campaigns' :
                        /\ r.pk = last'.active[k]
                        /\ r.keitaro_id # Null
                        /\ r.keitaro_id \in last'.listed]_vars

\* A sync whose listing request failed has returned nothing while the store
\* holds a campaign.
C18_Witness ==
    /\ last.op = "sync_campaigns" /\ ~last.answered
    /\ last.active = <<>>
    /\ campaigns # {}

InvalidCreate(fr) ==
    \/ CampaignByPk(fr.campaign).keitaro_id = Null
    \/ /\ fr.flow_type = "country_filter"
       /\ fr.redirect_url = NoText \/ fr.country = NoText
    \/ /\ fr.flow_type = "offer_redirect"
       /\ \/ fr.offer_ids = <<>>
          \/ \E k \in 1..Len(fr.offer_ids) : fr.offer_ids[k] \notin {"1", "2", " "}
          \/ \A k \in 1..Len(fr.offer_ids) : fr.offer_ids[k] = " "
    \/ fr.flow_type \notin {"country_filter", "offer_redirect"}

\* C20: create_flow_for_campaign with invalid arguments, and only then,
\* raises in its first step, with no create request made and the rows and the
\* tracker as they were; fetch_streams_from_keitaro on a campaign without a
\* remote id raises without asking for the listing, and push_flow_to_keitaro
\* on a flow that lacks a remote id of its own or of its campaign raises
\* without sending an update, both with every row as it was.
C20_ValidationBeforeRemote ==
    [][/\ (call.pc = "idle" /\ call'.op = "create_flow")
            => /\ InvalidCreate(call') <=> (call'.pc = "done" /\ call'.result = "error")
               /\ ~InvalidCreate(call') => call'.pc = "loop"
               /\ call'.i = 0 /\ call'.stored = 0
               /\ UNCHANGED <<campaigns, flows, offers, remote>>
       /\ (last'.op = "fetch" /\ CampaignByPk(last'.campaign).keitaro_id = Null)
            => /\ ~last'.ok /\ ~last'.asked
               /\ UNCHANGED <<campaigns, flows, offers, remote>>
       /\ (/\ last'.op = "push"
           /\ \E f \in flows :
                 /\ f.pk = last'.flow
                 /\ f.keitaro_id = Null \/ CampaignByPk(f.campaign).keitaro_id = Null)
            => /\ ~last'.ok /\ ~last'.put.sent
               /\ UNCHANGED <<campaigns, flows, offers, remote>>]_vars

\* A push of a flow without a remote id has raised without a request, and
\* after it a creation call for the offer ids "1, x" has raised in its first
\* step although campaign and flow type were in order.
C20_Witness ==
    /\ last.op = "push" /\ ~last.ok /\ ~last.put.sent
    /\ call.op = "create_flow" /\ call.pc = "done" /\ call.result = "error"
    /\ call.flow_type = "offer_redirect" /\ call.offer_ids = <<"1", "x">>
    /\ CampaignByPk(call.campaign).keitaro_id # Null

\* The value _make_request returns for a 500 answer when allow_500 is set.
AmbiguousFailure ==
    Returned(make_request(remote,
                          StreamData(1, <<"f">>, "redirect", PayloadVariant(0, <<"g">>),
                                     NoFilter),
                          "e500n", TRUE))

\* C21: whatever _make_request returned for a 2xx answer differs from what
\* it returns for a 500 answer under allow_500.
C21_AmbiguousDiffersFromSuccess ==
    (last.op = "make_request" /\ last.response \in {"ok", "empty"})
    => last.result # AmbiguousFailure

\* The lists a body holds under 'data' and under the endpoint's own key.
WrappedLists(response) ==
    {v \in {response.data, response.own} : v.t = "list"}

\* C22: a list call on a 2xx response has not raised, and it has returned
\* the bare array, else a list the object holds under 'data' or under the
\* endpoint's own key, else the empty list.
C22_ListCallsNormalize ==
    last.op \in Endpoints
    => /\ ~last.result.raised
       /\ IF last.response.t = "list"
          THEN last.result.value = Json("list", last.response.items)
          ELSE IF last.response.t = "dict" /\ WrappedLists(last.response) # {}
          THEN last.result.value \in WrappedLists(last.response)
          ELSE last.result.value = EmptyList

\* C23: after delete_flow the Flow row and every CampaignOffer bound to it
\* are gone, whether the remote deletion succeeded or not, and a flow without
\* a remote id is deleted without a request to the tracker.
C23_DeleteFlowRemovesRows ==
    [][last'.op = "delete_flow"
       => /\ ~\E f \in flows' : f.pk = last'.flow
          /\ ~\E r \in offers' : r.flow = last'.flow
          /\ (\E f \in flows : f.pk = last'.flow /\ f.keitaro_id = Null)
               => ~last'.asked /\ remote' = remote]_vars

\* C24: when bring_back_offer returns, the offer is active; if it is bound to
\* a flow F, F.has_changes is true and every active unpinned offer of F has
\* weight 1; if it is bound to no flow, no Flow row has changed.
C24_RestoreMarksAndRecalculates ==
    [][(last'.op = "restore" /\ last'.ok)
       => /\ RowsOf(offers', last'.campaign, last'.offer_id) # {}
          /\ \A r \in RowsOf(offers', last'.campaign, last'.offer_id) :
                r.status = "active" /\ r.flow = last'.flow
          /\ IF last'.flow = Null THEN flows' = flows
             ELSE /\ \A fl \in flows' : fl.pk = last'.flow => fl.has_changes
                  /\ \A r \in offers' :
                        (r.flow = last'.flow /\ r.status = "active" /\ ~r.weight_pinned)
                        => r.weight = 1]_vars

\* A restore has run on a removed offer of a flow that had no changes and
\* holds a second active unpinned offer.
C24_Witness ==
    /\ last.op = "restore" /\ last.ok /\ last.flow # Null
    /\ last.pre.status = "removed" /\ ~last.pre.hc
    /\ \E r \in offers : /\ r.flow = last.flow /\ r.offer_id # last.offer_id
                         /\ r.status = "active" /\ ~r.weight_pinned

\* C25: recalculate_weights(F) changes nothing but the weight (and the save
\* stamp) of the active unpinned offers bound to F: the flows are untouched,
\* no row appears or disappears, every pinned, removed, other-flow or unbound
\* row is returned as it was, a recalculated row keeps its status, flow and
\* pinned flag, and with no active unpinned offer on F no row changes.
Recalculated(r, f) == r.flow = f /\ r.status = "active" /\ ~r.weight_pinned

C25_RecalculationFrame ==
    \A fl \in flows :
        LET db == recalculate_weights(Store, fl.pk) IN
        /\ db.flows = flows
        /\ ~db.raised
        /\ {r.pk : r \in db.offers} = {r.pk : r \in offers}
        /\ \A r \in offers : \A q \in db.offers :
              q.pk = r.pk =>
                 IF Recalculated(r, fl.pk)
                 THEN [q EXCEPT !.weight = r.weight, !.updated_at = r.updated_at] = r
                 ELSE q = r
        /\ (~\E r \in offers : Recalculated(r, fl.pk)) => db.offers = offers

\* A flow whose recalculation rewrites a weight while a pinned offer of the
\* flow sits beside the rewritten one.
C25_Witness ==
    \E fl \in flows :
        /\ recalculate_weights(Store, fl.pk).offers # offers
        /\ \E r \in offers : Recalculated(r, fl.pk) /\ r.weight # 1
        /\ \E r \in offers : r.flow = fl.pk /\ r.status = "active"
                               /\ r.weight_pinned

\* C26: a drift sync leaves the status, weight and flow binding of an active
\* offer bound to no flow as they were when no stream of the listing names
\* the offer's id.
Unlisted(r, listed) ==
    r.status = "active" /\ r.flow = Null /\ r.offer_id \notin listed

C26_SyncKeepsUnboundOffers ==
    [][last'.op = "fetch"
       => \A r \in offers :
             Unlisted(r, last'.listed)
             => \E q \in offers' :
                   /\ q.pk = r.pk
                   /\ q.status = r.status /\ q.weight = r.weight /\ q.flow = r.flow]_vars

\* A sync of a listing that names an offer, committed beside an unbound
\* active offer the listing does not name.
C26_Witness ==
    /\ last.op = "fetch" /\ last.ok /\ last.asked
    /\ last.listed # {}
    /\ \E r \in offers : Unlisted(r, last.listed) /\ r.campaign = last.campaign
    /\ \E r \in offers : r.flow # Null /\ r.campaign = last.campaign

\* C27: an entry of a stream's offer list whose offer is not locally removed
\* leaves exactly one row for the campaign and the id read from 'offer_id' or
\* else 'id'; the row is active, bound to the flow of the stream, and its
\* weight is max(1, share) when the entry has 'share' (share 30 gives 30),
\* otherwise the entry's 'weight', otherwise 1.
SyncedEntries ==
    {Entry(offer_id, id, weight, share) :
        offer_id \in {Null, 2}, id \in {Null, 1},
        weight \in {Absent, 0, 2}, share \in {Absent, 0, 30}}

C27_EntrySetsIdWeightAndFlow ==
    \A fl \in flows : \A e \in SyncedEntries :
        LET db == SyncEntry(Store, fl.campaign, fl.pk, e, OfferIds)
            oid == IF e.offer_id # Null THEN e.offer_id ELSE e.id
            w == IF e.share # Absent THEN (IF e.share >= 1 THEN e.share ELSE 1)
                 ELSE IF e.weight # Absent THEN e.weight ELSE 1
        IN  (/\ oid # Null
             /\ ~\E r \in RowsOf(offers, fl.campaign, oid) : r.status = "removed"
             /\ ~db.overflow)
            => /\ ~db.raised
               /\ Cardinality(RowsOf(db.offers, fl.campaign, oid)) = 1
               /\ \A r \in RowsOf(db.offers, fl.campaign, oid) :
                     r.status = "active" /\ r.flow = fl.pk /\ r.weight = w

\* After a sync, a store in which an entry with share 30 rebinds an active
\* offer of another flow, and one in which it inserts a row.
C27_Witness ==
    /\ last.op = "fetch" /\ last.ok
    /\ \E fl \in flows :
          LET e == Entry(Null, 1, 2, 30)
              db == SyncEntry(Store, fl.campaign, fl.pk, e, OfferIds)
          IN  /\ \E r \in RowsOf(offers, fl.campaign, 1) :
                    r.status = "active" /\ r.flow # fl.pk /\ r.weight # 30
              /\ \E r \in db.offers : r.offer_id = 1 /\ r.flow = fl.pk /\ r.weight = 30
              /\ RowsOf(offers, fl.campaign, 2) = {}
              /\ RowsOf(SyncEntry(Store, fl.campaign, fl.pk, Entry(2, 1, Absent, Absent),
                                  OfferIds).offers, fl.campaign, 2) # {}

\* C28: the share of a removed offer is 0; the share of an active offer of
\* weight W whose campaign and flow hold active weights summing to T > 0 is
\* 100 * W / T rounded to one decimal (a tie to the even or to the upper
\* tenth); the share is 0 when T = 0.  Shares are in tenths of a percent.
HalfEven(W, T) ==
    LET q == (1000 * W) \div T
        twice == 2 * ((1000 * W) % T)
    IN  IF twice > T \/ (twice = T /\ q % 2 = 1) THEN q + 1 ELSE q

HalfUp(W, T) == (2000 * W + T) \div (2 * T)

C28_ShareIsRoundedQuotient ==
    last.op = "share"
    => /\ last.offer.status = "removed" => last.share = 0
       /\ (last.offer.status = "active" /\ last.total = 0) => last.share = 0
       /\ (last.offer.status = "active" /\ last.total > 0)
          => last.share \in {HalfEven(last.offer.weight, last.total),
                             HalfUp(last.offer.weight, last.total)}

\* C29: no step changes the flow_type of a Flow row that exists before and
\* after it.
C29_FlowTypeImmutable ==
    [][\A f \in flows : \A g \in flows' : g.pk = f.pk => g.flow_type = f.flow_type]_vars

\* C30: in every state a Flow with has_changes set has is_published unset.
C30_ChangedFlowUnpublished ==
    \A fl \in flows : fl.has_changes => ~fl.is_published

\* C31: an offer that a drift sync marked removed because no stream listed it
\* is active again, bound to a flow, after the next drift sync when that sync
\* processes an entry with its id.
C31_SyncRestoresItsOwnRemovals ==
    [][(last.op = "fetch" /\ last'.op = "fetch" /\ last'.ok /\ last'.campaign = last.campaign)
       => \A oid \in last.swept \cap last'.seen :
             \A r \in RowsOf(offers', last'.campaign, oid) :
                r.status = "active" /\ r.flow # Null]_vars

\* C32: a schema or action-type resolution never raises; after a failed
\* catalogue request and on an empty catalogue it returns the fallback; and
\* an engine instance requests each catalogue at most once.
C32_ResolutionNeverRaises ==
    last.op \in Resolvers
    => /\ ~last.result.raised
       /\ (last.failed \/ last.catalog = Json("list", <<>>))
          => last.result = Returns(Fallback(last.op))
       /\ call.schema_fetches <= 1
       /\ call.action_fetches <= 1

\* C33: when a sync has completed and the last request of a user was a
\* removal that returned, the removed offer has status removed, however the
\* removal fell between the statements of the sync.
C33_RemovalSurvivesConcurrentSync ==
    (call.pc = "done" /\ last.op = "remove" /\ last.ok)
    => \A r \in RowsOf(offers, last.campaign, last.offer_id) : r.status = "removed"

\* C34: when a removal with its recalculation has completed and the last
\* request of a user was a pin, the pinned offer has weight_pinned set and the
\* weight it had when it was pinned, however the pin fell between the
\* statements of the recalculation.
C34_PinSurvivesConcurrentRecalculation ==
    (call.pc = "done" /\ last.op = "pin")
    => \A r \in RowsOf(offers, last.campaign, last.offer_id) :
          r.weight_pinned /\ r.weight = last.weight

\* C35: a cancel on a flow that has no unpublished changes deletes no offer
\* row and changes no offer's status.
C35_CancelWithoutChangesKeepsOffers ==
    [][(last'.op = "cancel" /\ ~last'.pre.hc)
       => \A r \in offers : \E q \in offers' : q.pk = r.pk /\ q.status = r.status]_vars

\* C36: a drift sync run again on the store it left, against the same
\* listing, leaves the Flow rows and the CampaignOffer rows it found,
\* timestamps aside, and ends as the first run ended.
Untimed(rows) == {[r EXCEPT !.updated_at = Older] : r \in rows}

SyncedOnce(c, listing) == fetch_streams_from_keitaro(Store, c, listing, OfferIds)

SyncedTwice(c, once, listing) ==
    fetch_streams_from_keitaro(
        Db(Normalize(once).flows, Normalize(once).offers,
           once.nextFlowPk, once.nextOfferPk),
        c, listing, OfferIds)

C36_SyncIdempotent ==
    \A c \in campaigns : \A listing \in Listings(StreamIds) :
        LET once == SyncedOnce(c.pk, listing)
            twice == SyncedTwice(c.pk, once, listing)
        IN  ~once.overflow
            => /\ Untimed(twice.flows) = Untimed(once.flows)
               /\ Untimed(twice.offers) = Untimed(once.offers)
               /\ twice.raised = once.raised
               /\ ~twice.overflow

\* A store that one sync changes in every way it can: it rebinds or
\* reweights a row, inserts a row and sweeps a row.
C36_Witness ==
    \E c \in campaigns : \E listing \in Listings(StreamIds) :
        LET once == SyncedOnce(c.pk, listing) IN
        /\ ~once.overflow /\ ~once.raised
        /\ Untimed(once.offers) # Untimed(offers)
        /\ Swept(offers, once.offers) # {}
        /\ \E r \in once.offers : r.pk \notin {q.pk : q \in offers}

\* C37: removing an offer bound to a flow and restoring it leaves the offer
\* active with the flow binding and the weight_pinned it had, deletes no
\* row and keeps the weight of every pinned offer of the flow; a removal or a
\* restore of an offer id without a row raises and leaves every row as it was.
RemovedThenRestored(c, oid) ==
    LET removed == remove_offer_from_campaign(Store, c, oid)
    IN  bring_back_offer(
            Db(Normalize(removed).flows, Normalize(removed).offers,
               removed.nextFlowPk, removed.nextOfferPk), c, oid)

SameRows(db) == db.flows = flows /\ db.offers = offers

C37_RemoveRestoreRoundTrip ==
    \A c \in campaigns : \A oid \in OfferIds :
        LET found == Offer(Store, c.pk, oid)
            back == RemovedThenRestored(c.pk, oid)
        IN  /\ found = {}
               => /\ remove_offer_from_campaign(Store, c.pk, oid).raised
                  /\ SameRows(remove_offer_from_campaign(Store, c.pk, oid))
                  /\ bring_back_offer(Store, c.pk, oid).raised
                  /\ SameRows(bring_back_offer(Store, c.pk, oid))
            /\ (found # {} /\ FirstOffer(found).flow # Null)
               => /\ ~back.raised
                  /\ {r.pk : r \in back.offers} = {r.pk : r \in offers}
                  /\ \E r \in back.offers :
                        /\ r.pk = FirstOffer(found).pk
                        /\ r.status = "active"
                        /\ r.flow = FirstOffer(found).flow
                        /\ r.weight_pinned = FirstOffer(found).weight_pinned
                  /\ \A q \in offers :
                        (q.flow = FirstOffer(found).flow /\ q.weight_pinned)
                        => \E r \in back.offers : r.pk = q.pk /\ r.weight = q.weight

\* An active offer of an unchanged flow beside a pinned offer of another
\* weight: the round trip marks the flow changed, and the campaign has an
\* offer id without a row as well.
C37_Witness ==
    \E c \in campaigns : \E oid \in OfferIds : \E missing \in OfferIds :
        LET found == Offer(Store, c.pk, oid)
            back == RemovedThenRestored(c.pk, oid)
        IN  /\ found # {} /\ Offer(Store, c.pk, missing) = {}
            /\ FirstOffer(found).flow # Null /\ FirstOffer(found).status = "active"
            /\ ~HasChanges(FirstOffer(found).flow)
            /\ \E f \in back.flows : f.pk = FirstOffer(found).flow /\ f.has_changes
            /\ \E q \in offers : q.flow = FirstOffer(found).flow /\ q.weight_pinned
                                 /\ q.weight # 1

\* C38: whenever create_campaign_with_flows has returned the Campaign, the
\* campaign has a CampaignOffer row for the offer id it was called with,
\* bound to an offer_redirect flow of the campaign or to none, whatever the
\* outcome of the second flow's create call.
C38_PrimaryOfferRowExists ==
    (call.op = "create_campaign" /\ call.pc = "done" /\ call.result = "campaign")
    => \E r \in offers :
          /\ r.campaign = call.campaign
          /\ r.offer_id = call.offer_id_list[1]
          /\ r.flow # Null
             => \E f \in flows : /\ f.pk = r.flow /\ f.campaign = call.campaign
                                 /\ f.flow_type = "offer_redirect"

\* C39: when the step that follows the loop of an offer_redirect call has
\* persisted a new Flow row and returned it, every requested offer id has a
\* CampaignOffer row of the campaign that is active and bound to that flow,
\* also when the campaign had a row for the offer id before.
C39_NewFlowBindsRequestedOffers ==
    [][(call.op = "create_flow" /\ call.flow_type = "offer_redirect"
        /\ call.pc = "finish" /\ call'.pc = "done" /\ call'.result = "flow")
       => \A f \in flows' :
             (f.pk \notin {g.pk : g \in flows} /\ f.keitaro_id = call'.flow)
             => \A oid \in SeqToSet(call.offer_id_list) :
                   \E r \in offers' :
                      /\ r.campaign = call.campaign /\ r.offer_id = oid
                      /\ r.status = "active" /\ r.flow = f.pk]_vars

\* C40: a push whose PUT the remote refused raises and leaves every Flow row
\* and every CampaignOffer row as it was, the flow's has_changes and
\* is_published among them.
C40_FailedPushLeavesStore ==
    [][(last'.op = "push" /\ last'.put.sent /\ ~last'.ok)
       => /\ flows' = flows
          /\ offers' = offers]_vars

\* A push of a flow with unpublished changes and an active offer was sent
\* and refused: the flow still has its changes flagged.
C40_Witness ==
    /\ last.op = "push" /\ last.put.sent /\ ~last.ok
    /\ Len(last.put.offers) >= 1
    /\ \E fl \in flows : fl.pk = last.flow /\ fl.has_changes
    /\ \E r \in offers : r.flow = last.flow /\ r.status = "removed"

====
